---- MODULE Spec2Model ----
(***************************************************************************)
(* Model of the SDL2 display of UltraGrid (video_display/sdl2.cpp):        *)
(* the frame pool (free_frame_queue, last_frame), the producer-facing      *)
(* getf / putf / reconfigure calls, and the render thread                  *)
(* (loadSplashscreen followed by the SDL event loop of display_sdl2_run).  *)
(*                                                                         *)
(* Granularity.  Every region the code runs under s->lock is one step.     *)
(* A condition-variable wait that finds its predicate false parks the      *)
(* thread (woken[t] = "no"); notify_one moves one parked thread to         *)
(* "notified", and the thread re-evaluates its predicate in a later step.  *)
(* putf releases the lock before SDL_PushEvent, so the push is a step of   *)
(* its own.  The render thread handles one event per step.                 *)
(***************************************************************************)
EXTENDS Integers, Sequences, FiniteSets, TLC

----------------------------------------------------------------------------
(* Program constants *)

BUFFER_COUNT == 2

\* putf's timeout argument: PUTF_DISCARD < 0 = PUTF_NONBLOCK < a timeout in
\* ns < PUTF_BLOCKING (the largest value).
PUTF_DISCARD == -1
PUTF_NONBLOCK == 0
PUTF_TIMED == 1
PUTF_BLOCKING == 2

\* reconfigure_real's return values (TRUE / FALSE of the C headers)
C_TRUE == 1
C_FALSE == 0

\* the value display_sdl2_reconfigure stores before it waits
STATUS_PENDING == -1

\* the keys display_sdl2_process_key handles ('d', 'f', 'q'), and one it
\* does not ('x')
KEY_D == 100
KEY_F == 102
KEY_Q == 113
KEY_X == 120

----------------------------------------------------------------------------
(* Bounds of the model *)

\* longest SDL event queue the environment and the producers build up
MaxEvents == 2

----------------------------------------------------------------------------
(* Values *)

Threads == {"t1", "t2"}

\* struct video_desc: two descriptors a producer asks for, and the
\* splash screen's
DescA == [width |-> 2, height |-> 1, color_spec |-> "UYVY", interlacing |-> "PROGRESSIVE"]
DescB == [width |-> 1, height |-> 2, color_spec |-> "I420", interlacing |-> "INTERLACED_MERGED"]
DescC == [width |-> 2, height |-> 2, color_spec |-> "UYVY", interlacing |-> "INTERLACED_MERGED"]
SplashDesc == [width |-> 3, height |-> 1, color_spec |-> "RGBA", interlacing |-> "PROGRESSIVE"]
ZeroDesc == [width |-> 0, height |-> 0, color_spec |-> "VIDEO_CODEC_NONE", interlacing |-> "PROGRESSIVE"]
Descs == {DescA, DescB}

\* a null struct video_frame *
NULL == [id |-> 0]

\* outcomes of the SDL calls of one reconfiguration: everything succeeds, or
\* SDL_CreateWindow fails, or SDL_CreateRenderer fails, or SDL_CreateTexture
\* fails after ntex textures were created
Outcomes ==
    {[step |-> "ok", ntex |-> BUFFER_COUNT],
     [step |-> "window", ntex |-> 0],
     [step |-> "renderer", ntex |-> 0]}
    \cup {[step |-> "texture", ntex |-> i] : i \in 0..(BUFFER_COUNT - 1)}

WindowEvents == {"EXPOSED", "RESIZED"}

PutfTimeouts == {PUTF_DISCARD, PUTF_NONBLOCK, PUTF_TIMED, PUTF_BLOCKING}

\* SDL_Keycode: a key without a character is its scancode with bit 30 set,
\* any other key is its character (SDL_keycode.h)
SDLK_SCANCODE_MASK == 2^30
SDLK_F1 == SDLK_SCANCODE_MASK + 58
SDLK_PAGEUP == SDLK_SCANCODE_MASK + 75
SDLK_PAGEDOWN == SDLK_SCANCODE_MASK + 78
SDLK_RIGHT == SDLK_SCANCODE_MASK + 79
SDLK_LEFT == SDLK_SCANCODE_MASK + 80
SDLK_DOWN == SDLK_SCANCODE_MASK + 81
SDLK_UP == SDLK_SCANCODE_MASK + 82
SDLK_LCTRL == SDLK_SCANCODE_MASK + 224
SDLK_RCTRL == SDLK_SCANCODE_MASK + 228

\* SDL_Keymod, a bit set: here the set of the names of the bits
KMOD_NUM == {"NUM"}
KMOD_CAPS == {"CAPS"}
KMOD_CTRL == {"LCTRL", "RCTRL"}
KMOD_SHIFT == {"LSHIFT", "RSHIFT"}
KMOD_ALT == {"LALT", "RALT"}

\* the logical keys of the keyboard control: control+key and the
\* navigation keys have codes of their own, apart from the characters
K_CTRL(x) == 2^8 + x
K_UP == 2^9 + 1
K_DOWN == 2^9 + 2
K_RIGHT == 2^9 + 3
K_LEFT == 2^9 + 4
K_PGUP == 2^9 + 5
K_PGDOWN == 2^9 + 6

\* the characters 'a' and '1'
KEY_A == 97
KEY_1 == 49

\* the key presses of the model: SDL_Keysym, sym and mod
KeySym(sym, mod) == [sym |-> sym, mod |-> mod]
RawSyms ==
    {KEY_A, KEY_D, KEY_F, KEY_Q, KEY_X, KEY_1,
     SDLK_LCTRL, SDLK_RCTRL, SDLK_F1,
     SDLK_RIGHT, SDLK_LEFT, SDLK_DOWN, SDLK_UP, SDLK_PAGEDOWN, SDLK_PAGEUP}
RawMods ==
    {{}, {"CAPS"}, {"NUM", "CAPS"}, {"LSHIFT"}, {"RSHIFT", "CAPS"}, {"RCTRL"},
     {"LCTRL", "LSHIFT"}, {"LALT"}, {"RALT", "LSHIFT"}, {"LCTRL", "NUM"}}
RawKeys == {KeySym(sym, mod) : sym \in RawSyms, mod \in RawMods}

\* texts of control messages, as sequences of characters
WinTitlePrefix == <<"w", "i", "n", "-", "t", "i", "t", "l", "e", " ">>
TxtWinTitle == WinTitlePrefix \o <<"T">>
Txt100 == <<"1", "0", "0">>
Txt102 == <<"1", "0", "2">>
Txt113 == <<"1", "1", "3">>
Txt120 == <<"1", "2", "0">>
TxtNeg100 == <<"-", "1", "0", "0">>
Txt100x == <<"1", "0", "0", "x">>
TxtBogus == <<"b", "o", "g", "u", "s">>
MsgTexts ==
    {TxtWinTitle, Txt100, Txt102, Txt113, Txt120, TxtNeg100, Txt100x, TxtBogus}

\* the keys and messages that arrive while the producer of ScriptInput runs
InputKeys == {KeySym(KEY_Q, {}), KeySym(KEY_X, {})}
InputTexts == {Txt113}

----------------------------------------------------------------------------
VARIABLES
    free_frame_queue,       \* s->free_frame_queue
    last_frame,             \* s->last_frame
    events,                 \* the SDL event queue
    reconfiguration_status, \* s->reconfiguration_status
    current_display_desc,   \* s->current_display_desc
    window,                 \* s->window != nullptr
    renderer,               \* s->renderer != nullptr
    texture_pitch,          \* s->texture_pitch
    fixed_size,             \* s->fixed_size
    fmt,                    \* the options display_sdl2_init was given, as
                            \* the tokens between the colons
    rpc,                    \* where the render thread is
    pc,                     \* where each producer thread is
    woken,                  \* state of a thread inside a condition wait
    held,                   \* frames each producer got from getf and still has
    arg,                    \* arguments of the call a thread is in; after
                            \* putf returned, the timeout it was called with
    ret,                    \* what a thread's last call returned
    display_ok,             \* the last reconfigure call returned success
    resolved,               \* the status the render thread produced for a
                            \* thread's latest reconfigure request
    script,                 \* what the producers are set to do
    msgs,                   \* control messages queued for the module
    exit_requested,         \* who called exit_uv(0) last: "no" (nobody),
                            \* "key" (display_sdl2_process_key), "quit"
    deinterlace,            \* s->deinterlace
    fs,                     \* s->fs
    forwarded,              \* the keys passed to keycontrol_send_key while
                            \* the last key press was handled
    responses,              \* the responses of the last message handling
    translated,             \* the last key press handled and what
                            \* translate_sdl_key_to_ug returned for it
    sdl_calls,              \* the SDL calls that create, destroy or present,
                            \* made by the last step of the render thread
                            \* or of teardown (kept when Tracing)
    pool_access,            \* the accesses to free_frame_queue and
                            \* last_frame of the last step that made any,
                            \* each with whether s->lock was held (kept
                            \* when Tracing)
    calls_locked,           \* s->lock was held while the calls of sdl_calls
                            \* were made (kept when Tracing)
    opts,                   \* the "opts" parameter given to
                            \* create_video_rxtx_h264_std
    rxtx,                   \* "none": no h264_rtp_video_rxtx asked for yet;
                            \* "refused": create returned nullptr;
                            \* "created"; "aborted": an assertion failed
    rtsp_port,              \* rtsp_params.rtsp_port
    m_rtsp_server,          \* m_rtsp_server != nullptr
    tx_send_std,            \* the sender function chosen
    video_codec,            \* rtsp_params.video_codec
    starts,                 \* how many times c_start_server was called
    sent,                   \* what send_frame did with the last frame
    avType,                 \* rtsp_params.avType, the subsession's avType
    fSDPLines,              \* BasicRTSPOnlySubsession::fSDPLines
    sdp_ret,                \* what the last sdpLines call returned
    Vdestination,           \* BasicRTSPOnlySubsession::Vdestination
    Adestination,           \* BasicRTSPOnlySubsession::Adestination
    sender_msgs             \* the messages the last stream operation sent

displayVars ==
    <<free_frame_queue, last_frame, events, reconfiguration_status,
      current_display_desc, window, renderer, texture_pitch, fixed_size,
      fmt, rpc, pc, woken, held, arg, ret, display_ok, resolved, script,
      msgs, exit_requested, deinterlace, fs, forwarded, responses,
      translated, sdl_calls, pool_access, calls_locked>>
rtspVars ==
    <<opts, rxtx, rtsp_port, m_rtsp_server, tx_send_std, video_codec, starts,
      sent, avType, fSDPLines, sdp_ret, Vdestination, Adestination,
      sender_msgs>>

vars == <<free_frame_queue, last_frame, events, reconfiguration_status,
          current_display_desc, window, renderer, texture_pitch, fixed_size,
          fmt, rpc, pc, woken, held, arg, ret, display_ok, resolved, script,
          msgs, exit_requested, deinterlace, fs, forwarded, responses,
          translated, sdl_calls, pool_access, calls_locked,
          opts, rxtx, rtsp_port, m_rtsp_server, tx_send_std, video_codec,
          starts, sent, avType, fSDPLines, sdp_ret, Vdestination,
          Adestination, sender_msgs>>

poolVars == <<free_frame_queue, last_frame>>
sessionVars == <<current_display_desc, window, renderer, texture_pitch>>
threadVars == <<pc, woken, held, arg, ret>>
inputVars == <<msgs, exit_requested, deinterlace, fs, forwarded, responses,
               translated>>
traceVars == <<sdl_calls, pool_access, calls_locked>>
optionVars == <<fixed_size, fmt>>

----------------------------------------------------------------------------
(* Helpers *)

SeqToSet(q) == {q[i] : i \in 1..Len(q)}

\* frames some producer has (got from getf, not yet handed back)
HeldAll == UNION {held[t] : t \in Threads}

\* frames posted as new-frame events and not yet handled
PendingFrames == {events[i].data : i \in {j \in 1..Len(events) : events[j].type = "frame"}} \ {NULL}

\* SDL_LockTexture's pitch for a texture of this descriptor
TexturePitch(desc) == desc.width * (IF desc.color_spec = "RGBA" THEN 4 ELSE 2)

\* no key press has been handled yet
NoKey == [sym |-> 0, mod |-> {}, key |-> 0, handled |-> FALSE]

NoArg == [frame |-> NULL, timeout |-> PUTF_NONBLOCK, desc |-> ZeroDesc]
NoRet == [op |-> "none", val |-> 0]

\* threads parked on s->frame_consumed_cv / s->reconfigured_cv
FrameConsumedWaiters == {t \in Threads : pc[t] \in {"getf", "putf"} /\ woken[t] = "no"}
ReconfiguredWaiters == {t \in Threads : pc[t] = "reconf" /\ woken[t] = "no"}

\* mutant: the notification is lost
NotifyOne_Lost(waiters, w) == woken

\* condition_variable::notify_one: wakes one parked thread, if there is one
NotifyOne(waiters, w) ==
    IF waiters = {} THEN woken
    ELSE [woken EXCEPT ![w] = "notified"]
NotifyChoices(waiters) == IF waiters = {} THEN {"nobody"} ELSE waiters

\* the null new-frame event has been pushed
SentinelPosted ==
    \/ rpc = "stopped"
    \/ \E i \in 1..Len(events) : events[i] = [type |-> "frame", data |-> NULL]

\* who calls the display: <<"solo">> is one producer thread (t1) calling
\* anything in any order; <<"pair">> is two threads that only reconfigure;
\* <<"shutdown">> is a producer (t1) and a thread (t2) that submits the
\* null frame once, after which no new call is made;
\* <<"traced">> is <<"solo">> with the SDL calls and the accesses to the
\* pool recorded; <<"both">> is two producer threads calling anything;
\* any other script is the list of calls thread t1 makes, in order
ScriptAllows(t, op) ==
    \/ Head(script) \in {"solo", "traced"} /\ t = "t1"
    \/ Head(script) = "pair" /\ op = "reconf"
    \/ Head(script) = "both"
    \/ /\ Head(script) = "shutdown"
       /\ ~SentinelPosted
       /\ t = "t1" \/ (t = "t2" /\ op = "putf")
    \/ Head(script) = op /\ t = "t1"
ScriptAdvance ==
    IF Head(script) \in {"solo", "pair", "shutdown", "traced", "both"} THEN script
    ELSE Tail(script)

\* the record of SDL calls and pool accesses is kept
Tracing == Head(script) = "traced"
LogCallsLocked(calls, locked) ==
    /\ sdl_calls' = IF Tracing THEN calls ELSE sdl_calls
    /\ calls_locked' = IF Tracing THEN locked ELSE calls_locked
LogCalls(calls) == LogCallsLocked(calls, FALSE)
LogAccess(accesses) == pool_access' = IF Tracing THEN accesses ELSE pool_access

\* an access to a field of the pool, with s->lock held or not
Access(field, locked) == [field |-> field, locked |-> locked]

\* a step that makes no such SDL call and does not touch the pool
NoTrace == LogCalls(<<>>) /\ LogAccess({})

\* a step of getf or putf: the free queue is read or written under s->lock
QueueLocked == LogCalls(<<>>) /\ LogAccess({Access("free_frame_queue", TRUE)})

\* the name a script gives a putf call
PutfOp(frame, timeout) ==
    IF frame # NULL /\ timeout = PUTF_BLOCKING THEN "putf_blocking" ELSE "putf"

----------------------------------------------------------------------------
(* The pool and the reconfiguration, as the code computes them *)

\* mutant: recreate_textures without cleanup_frames
RecreateTextures_NoCleanup(desc, ntex, has_renderer) ==
    LET n == IF has_renderer THEN ntex ELSE 0
    IN  [ok |-> (n = BUFFER_COUNT),
         queue |-> free_frame_queue \o [i \in 1..n |-> [id |-> i, desc |-> desc]],
         last |-> last_frame,
         pitch |-> IF n > 0 THEN TexturePitch(desc) ELSE texture_pitch]

\* cleanup_frames followed by the allocation loop of recreate_textures:
\* ntex textures are created before SDL_CreateTexture fails (BUFFER_COUNT:
\* none fails); without a renderer the first creation fails
RecreateTextures(desc, ntex, has_renderer) ==
    LET n == IF has_renderer THEN ntex ELSE 0
    IN  [ok |-> (n = BUFFER_COUNT),
         queue |-> [i \in 1..n |-> [id |-> i, desc |-> desc]],
         last |-> NULL,
         pitch |-> IF n > 0 THEN TexturePitch(desc) ELSE texture_pitch]

\* how many textures SDL creates under an outcome
TexturesCreated(oc) == IF oc.step = "texture" THEN oc.ntex ELSE BUFFER_COUNT

\* mutant: 0 for success, as for a call that returns an error code
BoolToInt_ErrorCode(b) == IF b THEN 0 ELSE 1

\* the int a C++ bool converts to
BoolToInt(b) == IF b THEN C_TRUE ELSE C_FALSE

\* the SDL calls of display_sdl2_reconfigure_real up to SDL_CreateWindow
\* and from there up to SDL_CreateRenderer
WindowCalls ==
    (IF window THEN <<"SDL_DestroyWindow">> ELSE <<>>) \o <<"SDL_CreateWindow">>
RendererCalls ==
    (IF renderer THEN <<"SDL_DestroyRenderer">> ELSE <<>>) \o <<"SDL_CreateRenderer">>
TextureCalls == <<"SDL_RenderSetLogicalSize", "recreate_textures">>

\* mutant: no fixed-size path, the window is always created anew
ReconfigureReal_NoFixedPath(desc, oc) ==
    IF oc.step = "window"
    THEN [ret |-> C_FALSE, queue |-> free_frame_queue, last |-> last_frame,
          window |-> FALSE, renderer |-> renderer,
          desc |-> current_display_desc,
          pitch |-> texture_pitch,
          calls |-> WindowCalls]
    ELSE IF oc.step = "renderer"
    THEN [ret |-> C_FALSE, queue |-> free_frame_queue, last |-> last_frame,
          window |-> TRUE, renderer |-> FALSE,
          desc |-> current_display_desc,
          pitch |-> texture_pitch,
          calls |-> WindowCalls \o RendererCalls]
    ELSE LET rt == RecreateTextures(desc, TexturesCreated(oc), TRUE)
         IN  [ret |-> BoolToInt(rt.ok), queue |-> rt.queue, last |-> rt.last,
              window |-> TRUE, renderer |-> TRUE,
              desc |-> IF rt.ok THEN desc ELSE current_display_desc,
              pitch |-> rt.pitch,
              calls |-> WindowCalls \o RendererCalls \o TextureCalls]

\* display_sdl2_reconfigure_real: the return value, the session it leaves
\* and the SDL calls it makes
ReconfigureReal(desc, oc) ==
    IF fixed_size /\ window
    THEN LET rt == RecreateTextures(desc, TexturesCreated(oc), renderer)
         IN  [ret |-> BoolToInt(rt.ok), queue |-> rt.queue, last |-> rt.last,
              window |-> window, renderer |-> renderer,
              desc |-> current_display_desc,
              pitch |-> rt.pitch,
              calls |-> TextureCalls]
    ELSE IF oc.step = "window"
    THEN [ret |-> C_FALSE, queue |-> free_frame_queue, last |-> last_frame,
          window |-> FALSE, renderer |-> renderer,
          desc |-> current_display_desc,
          pitch |-> texture_pitch,
          calls |-> WindowCalls]
    ELSE IF oc.step = "renderer"
    THEN [ret |-> C_FALSE, queue |-> free_frame_queue, last |-> last_frame,
          window |-> TRUE, renderer |-> FALSE,
          desc |-> current_display_desc,
          pitch |-> texture_pitch,
          calls |-> WindowCalls \o RendererCalls]
    ELSE LET rt == RecreateTextures(desc, TexturesCreated(oc), TRUE)
         IN  [ret |-> BoolToInt(rt.ok), queue |-> rt.queue, last |-> rt.last,
              window |-> TRUE, renderer |-> TRUE,
              desc |-> IF rt.ok THEN desc ELSE current_display_desc,
              pitch |-> rt.pitch,
              calls |-> WindowCalls \o RendererCalls \o TextureCalls]

\* the accesses of recreate_textures (cleanup_frames and the pushes), if
\* display_sdl2_reconfigure_real got as far as calling it
RecreateAccesses(calls, locked) ==
    IF \E i \in 1..Len(calls) : calls[i] = "recreate_textures"
    THEN {Access("free_frame_queue", locked), Access("last_frame", locked)}
    ELSE {}

\* vc_deinterlace_ex: whether frames of this pixel format can be
\* deinterlaced
VcDeinterlaceEx(color_spec) == color_spec # "I420"

\* display_frame, the test before vc_deinterlace_ex
Deinterlaces(frame) ==
    \/ deinterlace = "force"
    \/ deinterlace = "on" /\ frame.desc.interlacing = "INTERLACED_MERGED"

\* mutant: any policy but off deinterlaces every frame
FrameCalls_OnIsForce(frame) ==
    (IF deinterlace # "off"
     THEN <<"vc_deinterlace_ex">>
          \o (IF VcDeinterlaceEx(frame.desc.color_spec) THEN <<>>
              ELSE <<"log_msg_once">>)
     ELSE <<>>)
    \o <<"SDL_RenderPresent">>

\* display_frame up to SDL_RenderPresent: the frame is deinterlaced in
\* place if the policy asks for it, a failure is logged, and the frame is
\* presented
FrameCalls(frame) ==
    (IF Deinterlaces(frame)
     THEN <<"vc_deinterlace_ex">>
          \o (IF VcDeinterlaceEx(frame.desc.color_spec) THEN <<>>
              ELSE <<"log_msg_once">>)
     ELSE <<>>)
    \o <<"SDL_RenderPresent">>

\* mutant: a frame that cannot be deinterlaced is neither presented nor
\* released
DisplayFrame_DeinterlaceOrDrop(st, frame) ==
    IF frame = NULL THEN st
    ELSE IF Deinterlaces(frame) /\ ~VcDeinterlaceEx(frame.desc.color_spec)
    THEN [st EXCEPT !.calls = @ \o <<"vc_deinterlace_ex", "log_msg_once">>]
    ELSE IF frame = st.last
    THEN [st EXCEPT !.calls = @ \o FrameCalls(frame),
                    !.access = @ \cup {Access("last_frame", FALSE)}]
    ELSE [queue |-> Append(st.queue, frame),
          last |-> frame,
          notify |-> TRUE,
          calls |-> st.calls \o FrameCalls(frame),
          access |-> st.access \cup {Access("free_frame_queue", TRUE),
                                     Access("last_frame", FALSE)}]

\* mutant: display_frame without the test for a redraw of last_frame
DisplayFrame_NoRedrawTest(st, frame) ==
    IF frame = NULL THEN st
    ELSE [queue |-> Append(st.queue, frame),
          last |-> frame,
          notify |-> TRUE,
          calls |-> st.calls \o FrameCalls(frame),
          access |-> st.access \cup {Access("free_frame_queue", TRUE),
                                     Access("last_frame", FALSE)}]

\* mutant: display_frame that releases the frame without notify_one
DisplayFrame_NoNotify(st, frame) ==
    IF frame = NULL THEN st
    ELSE IF frame = st.last
    THEN [st EXCEPT !.calls = @ \o FrameCalls(frame),
                    !.access = @ \cup {Access("last_frame", FALSE)}]
    ELSE [queue |-> Append(st.queue, frame),
          last |-> frame,
          notify |-> st.notify,
          calls |-> st.calls \o FrameCalls(frame),
          access |-> st.access \cup {Access("free_frame_queue", TRUE),
                                     Access("last_frame", FALSE)}]

\* display_frame on a pool st = [queue, last, notify, calls, access]:
\* a null frame is ignored; the frame is deinterlaced if the policy asks
\* for it, and presented; s->last_frame is read
\* (no lock held); unless the frame is last_frame (a redraw) it is pushed
\* to the free queue under s->lock, frame_consumed_cv is notified and,
\* the lock released, it becomes last_frame
DisplayFrame(st, frame) ==
    IF frame = NULL THEN st
    ELSE IF frame = st.last
    THEN [st EXCEPT !.calls = @ \o FrameCalls(frame),
                    !.access = @ \cup {Access("last_frame", FALSE)}]
    ELSE [queue |-> Append(st.queue, frame),
          last |-> frame,
          notify |-> TRUE,
          calls |-> st.calls \o FrameCalls(frame),
          access |-> st.access \cup {Access("free_frame_queue", TRUE),
                                     Access("last_frame", FALSE)}]

\* the pool as an event handler finds it
PoolNow ==
    [queue |-> free_frame_queue, last |-> last_frame, notify |-> FALSE,
     calls |-> <<>>, access |-> {}]

\* store what display_frame left, waking a thread if it notified
StorePool(st) ==
    /\ free_frame_queue' = st.queue
    /\ last_frame' = st.last
    /\ \E w \in NotifyChoices(FrameConsumedWaiters) :
           woken' = IF st.notify THEN NotifyOne(FrameConsumedWaiters, w) ELSE woken
    /\ LogCalls(st.calls)
    /\ LogAccess(st.access)

----------------------------------------------------------------------------
\* the option strings tried: none, "d", "dforce" and both in either order
Fmts == {<<>>, <<"d">>, <<"dforce">>, <<"d", "dforce">>, <<"dforce", "d">>}

\* display_sdl2_init, the strtok_r loop: each token "d" or "dforce" sets
\* s->deinterlace, to on if it is "d" and to off otherwise
RECURSIVE ParseOptions(_, _)
ParseOptions(toks, deint) ==
    IF toks = <<>> THEN deint
    ELSE ParseOptions(Tail(toks),
                      IF Head(toks) = "d" \/ Head(toks) = "dforce"
                      THEN (IF Head(toks) = "d" THEN "on" ELSE "off")
                      ELSE deint)

\* the RTSP side before create_video_rxtx_h264_std is called
NoPort == -1
NotSent == [codec |-> "none", fn |-> "none"]
SdpNull == <<>>
NoDest == [addr |-> "none", port |-> 0]
InitRtspVars ==
    /\ rxtx = "none"
    /\ rtsp_port = NoPort
    /\ m_rtsp_server = FALSE
    /\ tx_send_std = "none"
    /\ video_codec = "H264"
    /\ starts = 0
    /\ sent = NotSent
    /\ fSDPLines = SdpNull
    /\ sdp_ret = SdpNull
    /\ Vdestination = NoDest
    /\ Adestination = NoDest
    /\ sender_msgs = <<>>
NoRtsp == InitRtspVars /\ opts = <<>> /\ avType = "video"

InitDisplay ==
    /\ free_frame_queue = <<>>
    /\ last_frame = NULL
    /\ events = <<>>
    /\ reconfiguration_status \in {STATUS_PENDING, C_FALSE, C_TRUE}
    /\ current_display_desc = ZeroDesc
    /\ window = FALSE
    /\ renderer = FALSE
    /\ texture_pitch = 0
    /\ fixed_size \in BOOLEAN
    /\ rpc = "splash"
    /\ pc = [t \in Threads |-> "idle"]
    /\ woken = [t \in Threads |-> "no"]
    /\ held = [t \in Threads |-> {}]
    /\ arg = [t \in Threads |-> NoArg]
    /\ ret = [t \in Threads |-> NoRet]
    /\ display_ok = FALSE
    /\ resolved = [t \in Threads |-> STATUS_PENDING]
    /\ msgs = <<>>
    /\ exit_requested = "no"
    /\ fmt \in Fmts
    /\ deinterlace = ParseOptions(fmt, "off")
    /\ fs = FALSE
    /\ forwarded = <<>>
    /\ responses = <<>>
    /\ translated = NoKey
    /\ sdl_calls = <<>>
    /\ pool_access = {}
    /\ calls_locked = FALSE

InitSession == InitDisplay /\ NoRtsp

\* without options
NoOptions == fmt = <<>>

\* one producer thread
Init == InitSession /\ NoOptions /\ script = <<"solo">>

----------------------------------------------------------------------------
(* The render thread *)

\* loadSplashscreen: display_sdl2_reconfigure_real, result ignored
SplashReconfigure ==
    /\ rpc = "splash"
    /\ \E oc \in Outcomes :
         LET r == ReconfigureReal(SplashDesc, oc)
         IN  /\ free_frame_queue' = r.queue
             /\ last_frame' = r.last
             /\ window' = r.window
             /\ renderer' = r.renderer
             /\ current_display_desc' = r.desc
             /\ texture_pitch' = r.pitch
             /\ LogCalls(r.calls)
             /\ LogAccess(RecreateAccesses(r.calls, FALSE))
    /\ rpc' = "splash_getf"
    /\ UNCHANGED <<events, reconfiguration_status, optionVars,
                   threadVars, display_ok, resolved, script>>
    /\ UNCHANGED inputVars
    /\ UNCHANGED rtspVars

\* loadSplashscreen: display_sdl2_getf (waits for a free frame), then
\* display_frame of the splash frame
SplashShow ==
    /\ rpc = "splash_getf"
    /\ Len(free_frame_queue) > 0
    /\ LET splash == Head(free_frame_queue)
           st == [PoolNow EXCEPT !.queue = Tail(free_frame_queue),
                                 !.access = {Access("free_frame_queue", TRUE)}]
       IN  StorePool(DisplayFrame(st, splash))
    /\ rpc' = "loop"
    /\ UNCHANGED <<events, reconfiguration_status, sessionVars, optionVars,
                   pc, held, arg, ret, display_ok, resolved, script>>
    /\ UNCHANGED inputVars
    /\ UNCHANGED rtspVars

\* the video_desc a reconfigure event's data1 points to: the requester's
\* argument while it is still inside the call, anything once it returned
DescRead(e) ==
    IF pc[e.req] = "reconf" THEN {arg[e.req].desc} ELSE Descs

\* display_sdl2_run, sdl_user_reconfigure_event
RenderReconfigure(oc) ==
    /\ rpc = "loop"
    /\ events # <<>>
    /\ Head(events).type = "reconf"
    /\ \E d \in DescRead(Head(events)) :
         LET r == ReconfigureReal(d, oc)
         IN  /\ reconfiguration_status' = r.ret
             /\ resolved' = [resolved EXCEPT ![Head(events).req] = r.ret]
             /\ free_frame_queue' = r.queue
             /\ last_frame' = r.last
             /\ window' = r.window
             /\ renderer' = r.renderer
             /\ current_display_desc' = r.desc
             /\ texture_pitch' = r.pitch
             /\ LogCallsLocked(r.calls, TRUE)
             /\ LogAccess(RecreateAccesses(r.calls, TRUE))
    /\ \E w \in NotifyChoices(ReconfiguredWaiters) :
         woken' = NotifyOne(ReconfiguredWaiters, w)
    /\ events' = Tail(events)
    /\ UNCHANGED <<optionVars, rpc, pc, held, arg, ret, display_ok, script>>
    /\ UNCHANGED inputVars
    /\ UNCHANGED rtspVars

\* mutant: the null frame is passed to display_frame like any other and
\* the loop goes on
RenderNewFrame_NoPoisonPill ==
    /\ rpc = "loop"
    /\ events # <<>>
    /\ Head(events).type = "frame"
    /\ StorePool(DisplayFrame(PoolNow, Head(events).data))
    /\ rpc' = rpc
    /\ events' = Tail(events)
    /\ UNCHANGED <<reconfiguration_status, sessionVars, optionVars,
                   pc, held, arg, ret, display_ok, resolved, script>>
    /\ UNCHANGED inputVars
    /\ UNCHANGED rtspVars

\* mutant: only the newest frame event is handled, older ones are skipped
RenderNewFrame_SkipToLatest ==
    /\ rpc = "loop"
    /\ events # <<>>
    /\ Head(events).type = "frame"
    /\ LET FrameAt == {i \in 1..Len(events) : events[i].type = "frame"}
           latest == CHOOSE i \in FrameAt : \A j \in FrameAt : j <= i
       IN  /\ IF events[latest].data # NULL
              THEN /\ StorePool(DisplayFrame(PoolNow, events[latest].data))
                   /\ rpc' = rpc
              ELSE /\ rpc' = "stopped"
                   /\ UNCHANGED <<poolVars, woken>>
                   /\ NoTrace
           /\ events' = SubSeq(events, latest + 1, Len(events))
    /\ UNCHANGED <<reconfiguration_status, sessionVars, optionVars,
                   pc, held, arg, ret, display_ok, resolved, script>>
    /\ UNCHANGED inputVars
    /\ UNCHANGED rtspVars

\* display_sdl2_run, sdl_user_new_frame_event: a frame is displayed, the
\* null frame (poison pill) ends the loop
RenderNewFrame ==
    /\ rpc = "loop"
    /\ events # <<>>
    /\ Head(events).type = "frame"
    /\ IF Head(events).data # NULL
       THEN /\ StorePool(DisplayFrame(PoolNow, Head(events).data))
            /\ rpc' = rpc
       ELSE /\ rpc' = "stopped"
            /\ UNCHANGED <<poolVars, woken>>
            /\ NoTrace
    /\ events' = Tail(events)
    /\ UNCHANGED <<reconfiguration_status, sessionVars, optionVars,
                   pc, held, arg, ret, display_ok, resolved, script>>
    /\ UNCHANGED inputVars
    /\ UNCHANGED rtspVars

\* the window events on which display_sdl2_run redraws
Redraws(ev) == ev \in {"EXPOSED", "SIZE_CHANGED"}

\* a window event handler that redraws last_frame only once
RenderWindowEvent_RedrawOnce ==
    /\ rpc = "loop"
    /\ events # <<>>
    /\ Head(events).type = "window"
    /\ IF Redraws(Head(events).ev)
       THEN LET st == [PoolNow EXCEPT !.access = {Access("last_frame", FALSE)}]
            IN  StorePool(DisplayFrame(st, last_frame))
       ELSE UNCHANGED <<poolVars, woken>> /\ NoTrace
    /\ events' = Tail(events)
    /\ UNCHANGED <<reconfiguration_status, sessionVars, optionVars, rpc,
                   pc, held, arg, ret, display_ok, resolved, script>>
    /\ UNCHANGED inputVars
    /\ UNCHANGED rtspVars

\* display_sdl2_run, SDL_WINDOWEVENT: exposed and size-changed redraw
\* last_frame twice
RenderWindowEvent ==
    /\ rpc = "loop"
    /\ events # <<>>
    /\ Head(events).type = "window"
    /\ IF Redraws(Head(events).ev)
       THEN LET st == [PoolNow EXCEPT !.access = {Access("last_frame", FALSE)}]
            IN  StorePool(DisplayFrame(DisplayFrame(st, last_frame), last_frame))
       ELSE UNCHANGED <<poolVars, woken>> /\ NoTrace
    /\ events' = Tail(events)
    /\ UNCHANGED <<reconfiguration_status, sessionVars, optionVars, rpc,
                   pc, held, arg, ret, display_ok, resolved, script>>
    /\ UNCHANGED inputVars
    /\ UNCHANGED rtspVars

\* the decimal digits and their values
DigitOf ==
    [c \in {"0", "1", "2", "3", "4", "5", "6", "7", "8", "9"} |->
        CASE c = "0" -> 0 [] c = "1" -> 1 [] c = "2" -> 2 [] c = "3" -> 3
          [] c = "4" -> 4 [] c = "5" -> 5 [] c = "6" -> 6 [] c = "7" -> 7
          [] c = "8" -> 8 [] c = "9" -> 9]
IsDigit(c) == c \in DOMAIN DigitOf

\* sscanf's %d: white space is skipped, a sign is taken, then the digits up
\* to the first character that is not one; what follows is not looked at
RECURSIVE SkipSpace(_)
SkipSpace(text) ==
    IF text # <<>> /\ Head(text) = " " THEN SkipSpace(Tail(text)) ELSE text
RECURSIVE ScanDigits(_, _)
ScanDigits(text, acc) ==
    IF text # <<>> /\ IsDigit(Head(text))
    THEN ScanDigits(Tail(text), 10 * acc + DigitOf[Head(text)])
    ELSE acc

\* sscanf(msg->text, "%d", &key) == 1, and key
ScanKey(text) ==
    LET t1 == SkipSpace(text)
        signed == t1 # <<>> /\ Head(t1) \in {"-", "+"}
        t2 == IF signed THEN Tail(t1) ELSE t1
        n == ScanDigits(t2, 0)
    IN  IF t2 # <<>> /\ IsDigit(Head(t2))
        THEN [ok |-> TRUE, key |-> IF signed /\ Head(t1) = "-" THEN 0 - n ELSE n]
        ELSE [ok |-> FALSE, key |-> 0]

\* strstr(msg->text, "win-title ") == msg->text
IsWinTitle(text) ==
    /\ Len(text) >= Len(WinTitlePrefix)
    /\ SubSeq(text, 1, Len(WinTitlePrefix)) = WinTitlePrefix

\* the fields display_sdl2_process_key and the handlers around it write
InputNow ==
    [deinterlace |-> deinterlace, fs |-> fs, exit |-> exit_requested,
     handled |-> FALSE, responses |-> <<>>]

\* mutant: 'd' switches deinterlacing on
DisplaySdl2ProcessKey_DSetsOn(st, key) ==
    CASE key = KEY_D -> [st EXCEPT !.deinterlace = "on", !.handled = TRUE]
      [] key = KEY_F -> [st EXCEPT !.fs = ~@, !.handled = TRUE]
      [] key = KEY_Q -> [st EXCEPT !.exit = "key", !.handled = TRUE]
      [] OTHER -> [st EXCEPT !.handled = FALSE]

\* display_sdl2_process_key: 'd' toggles deinterlacing (anything but off
\* becomes off), 'f' toggles fullscreen, 'q' calls exit_uv(0); other keys
\* are not handled
DisplaySdl2ProcessKey(st, key) ==
    CASE key = KEY_D ->
           [st EXCEPT !.deinterlace = IF @ = "off" THEN "on" ELSE "off",
                      !.handled = TRUE]
      [] key = KEY_F -> [st EXCEPT !.fs = ~@, !.handled = TRUE]
      [] key = KEY_Q -> [st EXCEPT !.exit = "key", !.handled = TRUE]
      [] OTHER -> [st EXCEPT !.handled = FALSE]

\* free_message(msg, r): the response r goes to the sender of msg
Response(m, r) == [text |-> m.text, r |-> r]

\* the response to one control message, and what handling it changes
HandleMessage(st, m) ==
    IF IsWinTitle(m.text)
    THEN [st EXCEPT !.responses = Append(@, Response(m, "OK"))]
    ELSE IF ScanKey(m.text).ok
    THEN LET st2 == DisplaySdl2ProcessKey(st, ScanKey(m.text).key)
         IN  [st2 EXCEPT !.responses =
                 Append(@, Response(m, IF st2.handled THEN "OK" ELSE "BAD_REQUEST"))]
    ELSE [st EXCEPT !.responses = Append(@, Response(m, "BAD_REQUEST"))]

\* the loop over check_message: every queued message is handled
RECURSIVE CheckMessages(_, _)
CheckMessages(st, ms) ==
    IF ms = <<>> THEN st
    ELSE CheckMessages(HandleMessage(st, Head(ms)), Tail(ms))

\* mutant: one message is handled for each message event
RenderMessage_OneByOne ==
    /\ rpc = "loop"
    /\ events # <<>>
    /\ Head(events).type = "message"
    /\ LET st == CheckMessages(InputNow, SubSeq(msgs, 1, IF msgs = <<>> THEN 0 ELSE 1))
       IN  /\ deinterlace' = st.deinterlace
           /\ fs' = st.fs
           /\ exit_requested' = st.exit
           /\ responses' = st.responses
    /\ msgs' = IF msgs = <<>> THEN msgs ELSE Tail(msgs)
    /\ events' = Tail(events)
    /\ UNCHANGED <<poolVars, reconfiguration_status, sessionVars, optionVars,
                   rpc, threadVars, display_ok, resolved, script, forwarded,
                   translated>>
    /\ NoTrace
    /\ UNCHANGED rtspVars

\* display_sdl2_run, sdl_user_new_message_event
RenderMessage ==
    /\ rpc = "loop"
    /\ events # <<>>
    /\ Head(events).type = "message"
    /\ LET st == CheckMessages(InputNow, msgs)
       IN  /\ deinterlace' = st.deinterlace
           /\ fs' = st.fs
           /\ exit_requested' = st.exit
           /\ responses' = st.responses
    /\ msgs' = <<>>
    /\ events' = Tail(events)
    /\ UNCHANGED <<poolVars, reconfiguration_status, sessionVars, optionVars,
                   rpc, threadVars, display_ok, resolved, script, forwarded,
                   translated>>
    /\ NoTrace
    /\ UNCHANGED rtspVars

\* toupper, for the characters of ASCII
ToUpper(c) == IF c \in 97..122 THEN c - 32 ELSE c

\* mutant: the lock modifiers are not removed
TranslateSdlKeyToUg_LocksCount(keysym) ==
    LET mod1 == keysym.mod
        ctrl == mod1 \cap KMOD_CTRL # {}
        mod2 == mod1 \ KMOD_CTRL
        shift == mod2 \cap KMOD_SHIFT # {}
        mod3 == mod2 \ KMOD_SHIFT
    IN  IF keysym.sym \in {SDLK_LCTRL, SDLK_RCTRL} THEN 0
        ELSE IF mod3 # {} THEN -1
        ELSE IF keysym.sym < SDLK_SCANCODE_MASK
        THEN LET sym == IF shift THEN ToUpper(keysym.sym) ELSE keysym.sym
             IN  IF ctrl THEN K_CTRL(sym) ELSE sym
        ELSE CASE keysym.sym = SDLK_RIGHT -> K_RIGHT
               [] keysym.sym = SDLK_LEFT -> K_LEFT
               [] keysym.sym = SDLK_DOWN -> K_DOWN
               [] keysym.sym = SDLK_UP -> K_UP
               [] keysym.sym = SDLK_PAGEDOWN -> K_PGDOWN
               [] keysym.sym = SDLK_PAGEUP -> K_PGUP
               [] OTHER -> -1

\* translate_sdl_key_to_ug: num and caps lock are removed from the
\* modifiers; a control key itself gives 0; control and shift are noted
\* and removed, and any modifier left gives -1; a key with no scancode bit
\* is its character (upper case with shift), as control+key with control;
\* the arrows and page up / down have their codes; any other key gives -1
TranslateSdlKeyToUg(keysym) ==
    LET mod1 == keysym.mod \ (KMOD_NUM \cup KMOD_CAPS)
        ctrl == mod1 \cap KMOD_CTRL # {}
        mod2 == mod1 \ KMOD_CTRL
        shift == mod2 \cap KMOD_SHIFT # {}
        mod3 == mod2 \ KMOD_SHIFT
    IN  IF keysym.sym \in {SDLK_LCTRL, SDLK_RCTRL} THEN 0
        ELSE IF mod3 # {} THEN -1
        ELSE IF keysym.sym < SDLK_SCANCODE_MASK
        THEN LET sym == IF shift THEN ToUpper(keysym.sym) ELSE keysym.sym
             IN  IF ctrl THEN K_CTRL(sym) ELSE sym
        ELSE CASE keysym.sym = SDLK_RIGHT -> K_RIGHT
               [] keysym.sym = SDLK_LEFT -> K_LEFT
               [] keysym.sym = SDLK_DOWN -> K_DOWN
               [] keysym.sym = SDLK_UP -> K_UP
               [] keysym.sym = SDLK_PAGEDOWN -> K_PGDOWN
               [] keysym.sym = SDLK_PAGEUP -> K_PGUP
               [] OTHER -> -1

\* mutant: the key 'q' ends the loop
RenderKey_QStops ==
    /\ rpc = "loop"
    /\ events # <<>>
    /\ Head(events).type = "key"
    /\ LET sym == TranslateSdlKeyToUg(Head(events).keysym)
           st == IF sym > 0 THEN DisplaySdl2ProcessKey(InputNow, sym) ELSE InputNow
       IN  /\ deinterlace' = st.deinterlace
           /\ fs' = st.fs
           /\ exit_requested' = st.exit
           /\ forwarded' = IF sym > 0 /\ ~st.handled THEN <<sym>> ELSE <<>>
           /\ translated' = [sym |-> Head(events).keysym.sym,
                             mod |-> Head(events).keysym.mod,
                             key |-> sym, handled |-> st.handled]
           /\ rpc' = IF sym = KEY_Q THEN "stopped" ELSE rpc
    /\ events' = Tail(events)
    /\ UNCHANGED <<poolVars, reconfiguration_status, sessionVars, optionVars,
                   threadVars, display_ok, resolved, script, msgs, responses>>
    /\ NoTrace
    /\ UNCHANGED rtspVars

\* mutant: every translated key is passed on, handled here or not
RenderKey_ForwardsAll ==
    /\ rpc = "loop"
    /\ events # <<>>
    /\ Head(events).type = "key"
    /\ LET sym == TranslateSdlKeyToUg(Head(events).keysym)
           st == IF sym > 0 THEN DisplaySdl2ProcessKey(InputNow, sym) ELSE InputNow
       IN  /\ deinterlace' = st.deinterlace
           /\ fs' = st.fs
           /\ exit_requested' = st.exit
           /\ forwarded' = IF sym > 0 THEN <<sym>> ELSE <<>>
           /\ translated' = [sym |-> Head(events).keysym.sym,
                             mod |-> Head(events).keysym.mod,
                             key |-> sym, handled |-> st.handled]
    /\ events' = Tail(events)
    /\ UNCHANGED <<poolVars, reconfiguration_status, sessionVars, optionVars,
                   rpc, threadVars, display_ok, resolved, script, msgs, responses>>
    /\ NoTrace
    /\ UNCHANGED rtspVars

\* display_sdl2_run, SDL_KEYDOWN: a translated key is handled by
\* display_sdl2_process_key or passed to keycontrol_send_key
RenderKey ==
    /\ rpc = "loop"
    /\ events # <<>>
    /\ Head(events).type = "key"
    /\ LET sym == TranslateSdlKeyToUg(Head(events).keysym)
           st == IF sym > 0 THEN DisplaySdl2ProcessKey(InputNow, sym) ELSE InputNow
       IN  /\ deinterlace' = st.deinterlace
           /\ fs' = st.fs
           /\ exit_requested' = st.exit
           /\ forwarded' = IF sym > 0 /\ ~st.handled THEN <<sym>> ELSE <<>>
           /\ translated' = [sym |-> Head(events).keysym.sym,
                             mod |-> Head(events).keysym.mod,
                             key |-> sym, handled |-> st.handled]
    /\ events' = Tail(events)
    /\ UNCHANGED <<poolVars, reconfiguration_status, sessionVars, optionVars,
                   rpc, threadVars, display_ok, resolved, script, msgs, responses>>
    /\ NoTrace
    /\ UNCHANGED rtspVars

\* mutant: SDL_QUIT ends the loop
RenderQuit_Stops ==
    /\ rpc = "loop"
    /\ events # <<>>
    /\ Head(events).type = "quit"
    /\ exit_requested' = "quit"
    /\ rpc' = "stopped"
    /\ events' = Tail(events)
    /\ UNCHANGED <<poolVars, reconfiguration_status, sessionVars, optionVars,
                   threadVars, display_ok, resolved, script,
                   msgs, deinterlace, fs, forwarded, responses, translated>>
    /\ NoTrace
    /\ UNCHANGED rtspVars

\* display_sdl2_run, SDL_QUIT: exit_uv(0); should_exit_sdl is not set
RenderQuit ==
    /\ rpc = "loop"
    /\ events # <<>>
    /\ Head(events).type = "quit"
    /\ exit_requested' = "quit"
    /\ rpc' = rpc
    /\ events' = Tail(events)
    /\ UNCHANGED <<poolVars, reconfiguration_status, sessionVars, optionVars,
                   threadVars, display_ok, resolved, script,
                   msgs, deinterlace, fs, forwarded, responses, translated>>
    /\ NoTrace
    /\ UNCHANGED rtspVars

\* ids of the control messages that are queued or whose event is
MsgIdsInUse ==
    {msgs[i].id : i \in 1..Len(msgs)}
       \cup {events[i].id : i \in {j \in 1..Len(events) : events[j].type = "message"}}

\* a control message is queued for the module and display_sdl2_new_message
\* pushes its event
PostMessage(text) ==
    /\ Len(events) < MaxEvents
    /\ LET id == CHOOSE i \in 1..(MaxEvents + 1) : i \notin MsgIdsInUse
       IN  /\ msgs' = Append(msgs, [id |-> id, text |-> text])
           /\ events' = Append(events, [type |-> "message", id |-> id])
    /\ UNCHANGED <<poolVars, reconfiguration_status, sessionVars, optionVars,
                   rpc, threadVars, display_ok, resolved, script,
                   exit_requested, deinterlace, fs, forwarded, responses,
                   translated>>
    /\ NoTrace
    /\ UNCHANGED rtspVars

\* SDL posts a key press
PostKey(keysym) ==
    /\ Len(events) < MaxEvents
    /\ events' = Append(events, [type |-> "key", keysym |-> keysym])
    /\ UNCHANGED <<poolVars, reconfiguration_status, sessionVars, optionVars,
                   rpc, threadVars, display_ok, resolved, script>>
    /\ UNCHANGED inputVars
    /\ NoTrace
    /\ UNCHANGED rtspVars

\* SDL posts SDL_QUIT
PostQuit ==
    /\ Len(events) < MaxEvents
    /\ events' = Append(events, [type |-> "quit"])
    /\ UNCHANGED <<poolVars, reconfiguration_status, sessionVars, optionVars,
                   rpc, threadVars, display_ok, resolved, script>>
    /\ UNCHANGED inputVars
    /\ NoTrace
    /\ UNCHANGED rtspVars

\* the window system posts a window event (one slot of the bounded queue
\* is left to the producers)
PostWindowEvent(ev) ==
    /\ Len(events) + 1 < MaxEvents
    /\ events' = Append(events, [type |-> "window", ev |-> ev])
    /\ UNCHANGED <<poolVars, reconfiguration_status, sessionVars, optionVars,
                   rpc, threadVars, display_ok, resolved, script>>
    /\ UNCHANGED inputVars
    /\ NoTrace
    /\ UNCHANGED rtspVars

----------------------------------------------------------------------------
(* The producer threads.  The callers keep the display API's contract: a  *)
(* frame is requested only after a reconfigure call returned success and  *)
(* while no reconfigure call is under way, a thread submits only frames   *)
(* it holds (or the null frame), and reconfigure is called only while no  *)
(* producer holds a frame or is inside getf / putf.                       *)

\* mutant: getf takes the most recently released frame (back of the queue)
GetfCall_Lifo(t) ==
    /\ pc[t] = "idle"
    /\ display_ok
    /\ \A u \in Threads : pc[u] # "reconf"
    /\ ScriptAllows(t, "getf")
    /\ script' = ScriptAdvance
    /\ IF Len(free_frame_queue) > 0
       THEN /\ held' = [held EXCEPT ![t] = @ \cup {free_frame_queue[Len(free_frame_queue)]}]
            /\ free_frame_queue' = SubSeq(free_frame_queue, 1, Len(free_frame_queue) - 1)
            /\ ret' = [ret EXCEPT ![t] = NoRet]
            /\ UNCHANGED <<pc, woken>>
       ELSE /\ pc' = [pc EXCEPT ![t] = "getf"]
            /\ woken' = [woken EXCEPT ![t] = "no"]
            /\ UNCHANGED <<free_frame_queue, held, ret>>
    /\ UNCHANGED <<last_frame, events, reconfiguration_status, sessionVars,
                   optionVars, rpc, arg, display_ok, resolved>>
    /\ UNCHANGED inputVars
    /\ QueueLocked
    /\ UNCHANGED rtspVars

\* display_sdl2_getf: waits until the free queue is non-empty, then pops
GetfCall(t) ==
    /\ pc[t] = "idle"
    /\ display_ok
    /\ \A u \in Threads : pc[u] # "reconf"
    /\ ScriptAllows(t, "getf")
    /\ script' = ScriptAdvance
    /\ IF Len(free_frame_queue) > 0
       THEN /\ held' = [held EXCEPT ![t] = @ \cup {Head(free_frame_queue)}]
            /\ free_frame_queue' = Tail(free_frame_queue)
            /\ ret' = [ret EXCEPT ![t] = NoRet]
            /\ UNCHANGED <<pc, woken>>
       ELSE /\ pc' = [pc EXCEPT ![t] = "getf"]
            /\ woken' = [woken EXCEPT ![t] = "no"]
            /\ UNCHANGED <<free_frame_queue, held, ret>>
    /\ UNCHANGED <<last_frame, events, reconfiguration_status, sessionVars,
                   optionVars, rpc, arg, display_ok, resolved>>
    /\ UNCHANGED inputVars
    /\ QueueLocked
    /\ UNCHANGED rtspVars

\* display_sdl2_getf, woken inside frame_consumed_cv.wait
GetfWake(t) ==
    /\ pc[t] = "getf"
    /\ woken[t] # "no"
    /\ woken' = [woken EXCEPT ![t] = "no"]
    /\ IF Len(free_frame_queue) > 0
       THEN /\ held' = [held EXCEPT ![t] = @ \cup {Head(free_frame_queue)}]
            /\ free_frame_queue' = Tail(free_frame_queue)
            /\ ret' = [ret EXCEPT ![t] = NoRet]
            /\ pc' = [pc EXCEPT ![t] = "idle"]
       ELSE UNCHANGED <<free_frame_queue, held, ret, pc>>
    /\ UNCHANGED <<last_frame, events, reconfiguration_status, sessionVars,
                   optionVars, rpc, arg, display_ok, resolved, script>>
    /\ UNCHANGED inputVars
    /\ QueueLocked
    /\ UNCHANGED rtspVars

\* mutant: a posted frame is pushed to the free queue as well
PutfAfterWait_PostAndRelease(t, frame, timeout) ==
    IF frame # NULL /\ Len(free_frame_queue) = 0
    THEN /\ free_frame_queue' = Append(free_frame_queue, frame)
         /\ held' = [held EXCEPT ![t] = @ \ {frame}]
         /\ ret' = [ret EXCEPT ![t] = [op |-> "putf", val |-> 1]]
         /\ pc' = [pc EXCEPT ![t] = "idle"]
         /\ arg' = [arg EXCEPT ![t] = [NoArg EXCEPT !.timeout = timeout]]
    ELSE /\ pc' = [pc EXCEPT ![t] = "putf_post"]
         /\ arg' = [arg EXCEPT ![t] = [NoArg EXCEPT !.frame = frame, !.timeout = timeout]]
         /\ free_frame_queue' = IF frame # NULL THEN Append(free_frame_queue, frame)
                                ELSE free_frame_queue
         /\ UNCHANGED <<held, ret>>

\* mutant: a dropped frame is reported as accepted (0)
PutfAfterWait_DropReturnsOk(t, frame, timeout) ==
    IF frame # NULL /\ Len(free_frame_queue) = 0
    THEN /\ free_frame_queue' = Append(free_frame_queue, frame)
         /\ held' = [held EXCEPT ![t] = @ \ {frame}]
         /\ ret' = [ret EXCEPT ![t] = [op |-> "putf", val |-> 0]]
         /\ pc' = [pc EXCEPT ![t] = "idle"]
         /\ arg' = [arg EXCEPT ![t] = [NoArg EXCEPT !.timeout = timeout]]
    ELSE /\ pc' = [pc EXCEPT ![t] = "putf_post"]
         /\ arg' = [arg EXCEPT ![t] = [NoArg EXCEPT !.frame = frame, !.timeout = timeout]]
         /\ UNCHANGED <<free_frame_queue, held, ret>>

\* mutant: a frame submitted without waiting is posted without the test
\* of the free queue
PutfAfterWait_NonblockPosts(t, frame, timeout) ==
    IF frame # NULL /\ Len(free_frame_queue) = 0 /\ timeout # PUTF_NONBLOCK
    THEN /\ free_frame_queue' = Append(free_frame_queue, frame)
         /\ held' = [held EXCEPT ![t] = @ \ {frame}]
         /\ ret' = [ret EXCEPT ![t] = [op |-> "putf", val |-> 1]]
         /\ pc' = [pc EXCEPT ![t] = "idle"]
         /\ arg' = [arg EXCEPT ![t] = [NoArg EXCEPT !.timeout = timeout]]
    ELSE /\ pc' = [pc EXCEPT ![t] = "putf_post"]
         /\ arg' = [arg EXCEPT ![t] = [NoArg EXCEPT !.frame = frame, !.timeout = timeout]]
         /\ UNCHANGED <<free_frame_queue, held, ret>>

\* mutant: no drop test, the frame is always posted
PutfAfterWait_NeverDrops(t, frame, timeout) ==
    /\ pc' = [pc EXCEPT ![t] = "putf_post"]
    /\ arg' = [arg EXCEPT ![t] = [NoArg EXCEPT !.frame = frame, !.timeout = timeout]]
    /\ UNCHANGED <<free_frame_queue, held, ret>>

\* display_sdl2_putf after its wait: with a frame and an empty free queue
\* the frame is dropped (pushed back, 1 returned); otherwise the lock is
\* released and the event is pushed next
PutfAfterWait(t, frame, timeout) ==
    IF frame # NULL /\ Len(free_frame_queue) = 0
    THEN /\ free_frame_queue' = Append(free_frame_queue, frame)
         /\ held' = [held EXCEPT ![t] = @ \ {frame}]
         /\ ret' = [ret EXCEPT ![t] = [op |-> "putf", val |-> 1]]
         /\ pc' = [pc EXCEPT ![t] = "idle"]
         /\ arg' = [arg EXCEPT ![t] = [NoArg EXCEPT !.timeout = timeout]]
    ELSE /\ pc' = [pc EXCEPT ![t] = "putf_post"]
         /\ arg' = [arg EXCEPT ![t] = [NoArg EXCEPT !.frame = frame, !.timeout = timeout]]
         /\ UNCHANGED <<free_frame_queue, held, ret>>

\* mutant: PUTF_DISCARD is not told apart from PUTF_NONBLOCK
PutfCall_DiscardIsSubmit(t, frame, timeout) ==
    /\ pc[t] = "idle"
    /\ frame \in held[t] \cup {NULL}
    /\ timeout = PUTF_DISCARD => frame # NULL
    /\ Len(events) < MaxEvents
    /\ ScriptAllows(t, PutfOp(frame, timeout))
    /\ script' = ScriptAdvance
    /\ IF frame # NULL /\ timeout > 0 /\ Len(free_frame_queue) = 0
       THEN /\ pc' = [pc EXCEPT ![t] = "putf"]
            /\ arg' = [arg EXCEPT ![t] = [NoArg EXCEPT !.frame = frame, !.timeout = timeout]]
            /\ woken' = [woken EXCEPT ![t] = "no"]
            /\ UNCHANGED <<free_frame_queue, held, ret>>
       ELSE /\ PutfAfterWait(t, frame, timeout)
            /\ UNCHANGED woken
    /\ UNCHANGED <<last_frame, events, reconfiguration_status, sessionVars,
                   optionVars, rpc, display_ok, resolved>>
    /\ UNCHANGED inputVars
    /\ QueueLocked
    /\ UNCHANGED rtspVars

\* display_sdl2_putf up to its wait
PutfCall(t, frame, timeout) ==
    /\ pc[t] = "idle"
    /\ frame \in held[t] \cup {NULL}
    /\ timeout = PUTF_DISCARD => frame # NULL
    /\ Len(events) < MaxEvents
    /\ ScriptAllows(t, PutfOp(frame, timeout))
    /\ script' = ScriptAdvance
    /\ IF timeout = PUTF_DISCARD
       THEN /\ free_frame_queue' = Append(free_frame_queue, frame)
            /\ held' = [held EXCEPT ![t] = @ \ {frame}]
            /\ ret' = [ret EXCEPT ![t] = [op |-> "putf", val |-> 0]]
            /\ arg' = [arg EXCEPT ![t] = [NoArg EXCEPT !.timeout = timeout]]
            /\ UNCHANGED <<pc, woken>>
       ELSE IF frame # NULL /\ timeout > 0 /\ Len(free_frame_queue) = 0
       THEN /\ pc' = [pc EXCEPT ![t] = "putf"]
            /\ arg' = [arg EXCEPT ![t] = [NoArg EXCEPT !.frame = frame, !.timeout = timeout]]
            /\ woken' = [woken EXCEPT ![t] = "no"]
            /\ UNCHANGED <<free_frame_queue, held, ret>>
       ELSE /\ PutfAfterWait(t, frame, timeout)
            /\ UNCHANGED woken
    /\ UNCHANGED <<last_frame, events, reconfiguration_status, sessionVars,
                   optionVars, rpc, display_ok, resolved>>
    /\ UNCHANGED inputVars
    /\ QueueLocked
    /\ UNCHANGED rtspVars

\* the timeout of wait_for expires
PutfTimeout(t) ==
    /\ pc[t] = "putf"
    /\ arg[t].timeout # PUTF_BLOCKING
    /\ woken[t] = "no"
    /\ woken' = [woken EXCEPT ![t] = "timeout"]
    /\ UNCHANGED <<poolVars, events, reconfiguration_status, sessionVars,
                   optionVars, rpc, pc, held, arg, ret, display_ok, resolved, script>>
    /\ UNCHANGED inputVars
    /\ NoTrace
    /\ UNCHANGED rtspVars

\* display_sdl2_putf, woken inside frame_consumed_cv.wait / wait_for: a
\* notified thread whose predicate is false waits on; a timed-out one
\* goes on whatever the predicate
PutfWake(t) ==
    /\ pc[t] = "putf"
    /\ woken[t] # "no"
    /\ woken' = [woken EXCEPT ![t] = "no"]
    /\ IF Len(free_frame_queue) = 0 /\ woken[t] = "notified"
       THEN UNCHANGED <<free_frame_queue, held, ret, pc, arg>>
       ELSE PutfAfterWait(t, arg[t].frame, arg[t].timeout)
    /\ UNCHANGED <<last_frame, events, reconfiguration_status, sessionVars,
                   optionVars, rpc, display_ok, resolved, script>>
    /\ UNCHANGED inputVars
    /\ QueueLocked
    /\ UNCHANGED rtspVars

\* display_sdl2_putf: SDL_PushEvent of the new-frame event, return 0
PutfPost(t) ==
    /\ pc[t] = "putf_post"
    /\ events' = Append(events, [type |-> "frame", data |-> arg[t].frame])
    /\ held' = [held EXCEPT ![t] = @ \ {arg[t].frame}]
    /\ ret' = [ret EXCEPT ![t] = [op |-> "putf", val |-> 0]]
    /\ pc' = [pc EXCEPT ![t] = "idle"]
    /\ arg' = [arg EXCEPT ![t] = [NoArg EXCEPT !.timeout = arg[t].timeout]]
    /\ UNCHANGED <<poolVars, reconfiguration_status, sessionVars, optionVars,
                   rpc, woken, display_ok, resolved, script>>
    /\ UNCHANGED inputVars
    /\ NoTrace
    /\ UNCHANGED rtspVars

\* display_sdl2_reconfigure: under the lock, push the reconfigure event,
\* set the status to -1 and wait for a status >= 0
ReconfigureCall(t, desc) ==
    /\ pc[t] = "idle"
    /\ \A u \in Threads : held[u] = {} /\ pc[u] \in {"idle", "reconf"}
    /\ Len(events) < MaxEvents
    /\ ScriptAllows(t, "reconf")
    /\ script' = ScriptAdvance
    /\ events' = Append(events, [type |-> "reconf", req |-> t])
    /\ reconfiguration_status' = STATUS_PENDING
    /\ pc' = [pc EXCEPT ![t] = "reconf"]
    /\ arg' = [arg EXCEPT ![t] = [NoArg EXCEPT !.desc = desc]]
    /\ woken' = [woken EXCEPT ![t] = "no"]
    /\ resolved' = [resolved EXCEPT ![t] = STATUS_PENDING]
    /\ UNCHANGED <<poolVars, sessionVars, optionVars, rpc, held, ret,
                   display_ok>>
    /\ UNCHANGED inputVars
    /\ NoTrace
    /\ UNCHANGED rtspVars

\* display_sdl2_reconfigure, woken inside reconfigured_cv.wait: returns
\* the status if it is >= 0
ReconfigureWake(t) ==
    /\ pc[t] = "reconf"
    /\ woken[t] # "no"
    /\ woken' = [woken EXCEPT ![t] = "no"]
    /\ IF reconfiguration_status >= 0
       THEN /\ ret' = [ret EXCEPT ![t] = [op |-> "reconf", val |-> reconfiguration_status]]
            /\ pc' = [pc EXCEPT ![t] = "idle"]
            /\ arg' = [arg EXCEPT ![t] = NoArg]
            /\ display_ok' = (reconfiguration_status # C_FALSE)
       ELSE UNCHANGED <<ret, pc, arg, display_ok>>
    /\ UNCHANGED <<poolVars, events, sessionVars, optionVars, rpc,
                   held, reconfiguration_status, resolved, script>>
    /\ UNCHANGED inputVars
    /\ NoTrace
    /\ UNCHANGED rtspVars

\* codec_is_planar: of the pixel formats of the display, I420 is planar
CodecIsPlanar(color_spec) == color_spec = "I420"

\* PITCH_DEFAULT: the pitch is the line size of the pixel format
PITCH_DEFAULT == -1

\* display_sdl2_get_property, DISPLAY_PROPERTY_BUF_PITCH: the value stored
BufPitch ==
    IF CodecIsPlanar(current_display_desc.color_spec) THEN PITCH_DEFAULT
    ELSE texture_pitch

\* display_sdl2_get_property(DISPLAY_PROPERTY_BUF_PITCH): takes no lock
\* and changes nothing
GetPropertyCall(t) ==
    /\ pc[t] = "idle"
    /\ ScriptAllows(t, "get_property")
    /\ script' = ScriptAdvance
    /\ ret' = [ret EXCEPT ![t] = [op |-> "get_property", val |-> BufPitch]]
    /\ UNCHANGED <<poolVars, events, reconfiguration_status, sessionVars,
                   optionVars, rpc, pc, woken, held, arg, display_ok, resolved>>
    /\ UNCHANGED inputVars
    /\ NoTrace
    /\ UNCHANGED rtspVars

\* display_sdl2_done, called when display_sdl2_run has returned and no
\* thread is inside a call: cleanup_frames (without s->lock), the renderer
\* and the window destroyed, the state deleted
Done ==
    /\ rpc = "stopped"
    /\ \A t \in Threads : pc[t] = "idle"
    /\ ScriptAllows("t1", "done")
    /\ script' = <<"end">>
    /\ rpc' = "done"
    /\ free_frame_queue' = <<>>
    /\ last_frame' = NULL
    /\ renderer' = FALSE
    /\ window' = FALSE
    /\ display_ok' = FALSE
    /\ LogCalls((IF renderer THEN <<"SDL_DestroyRenderer">> ELSE <<>>)
                   \o (IF window THEN <<"SDL_DestroyWindow">> ELSE <<>>))
    /\ LogAccess({Access("free_frame_queue", FALSE), Access("last_frame", FALSE)})
    /\ UNCHANGED <<events, reconfiguration_status, current_display_desc,
                   texture_pitch, optionVars, threadVars, resolved>>
    /\ UNCHANGED inputVars
    /\ UNCHANGED rtspVars

\* a condition wait may return without a notification
SpuriousWakeup(t) ==
    /\ pc[t] \in {"getf", "putf", "reconf"}
    /\ woken[t] = "no"
    /\ woken' = [woken EXCEPT ![t] = "notified"]
    /\ UNCHANGED <<poolVars, events, reconfiguration_status, sessionVars,
                   optionVars, rpc, pc, held, arg, ret, display_ok, resolved, script>>
    /\ UNCHANGED inputVars
    /\ NoTrace
    /\ UNCHANGED rtspVars

----------------------------------------------------------------------------
(* The RTSP sender: h264_rtp_video_rxtx and BasicRTSPOnlySubsession *)

PortEq == <<"p", "o", "r", "t", "=">>
PortColon == <<"p", "o", "r", "t", ":">>
OptHelp == <<"h", "e", "l", "p">>

\* the "opts" strings tried
OptStrings ==
    {<<>>, OptHelp, PortEq, PortColon,
     PortEq \o <<"8", "5", "5", "4">>,
     PortColon \o <<"8", "0">>,
     PortEq \o <<"0">>,
     PortEq \o <<"6", "5", "5", "3", "5">>,
     PortEq \o <<"6", "5", "5", "3", "6">>,
     PortEq \o <<"-", "1">>,
     PortEq \o <<" ", "8", "0">>,
     PortEq \o <<"x", "1">>,
     PortEq \o <<"8", "0", "x">>,
     <<"8", "5", "5", "4">>,
     <<"p", "o", "r", "t">>}

\* the codecs of the frames tried; UYVY stands for any codec that is
\* neither H264 nor JPEG nor MJPG
Codecs == {"H264", "JPEG", "MJPG", "UYVY"}

AvTypes == {"video", "audio", "av"}
AddressFamilies == {"AF_INET", "AF_INET6"}

\* rtsp_params.rtp_port and rtp_port_audio (the parameters rx_port and
\* a_rx_port)
RtpPort == 5004
RtpPortAudio == 5006

\* the addresses and RTP ports of the clients tried
ClientAddrs == {"10.0.0.1", "10.0.0.2"}
ClientPorts == {6000, 6002}

\* the first n characters of a string
Take(text, n) == SubSeq(text, 1, IF Len(text) < n THEN Len(text) ELSE n)

\* atoi: white space, a sign, then digits up to the first character that
\* is not one
Atoi(text) ==
    LET t1 == SkipSpace(text)
        signed == t1 # <<>> /\ Head(t1) \in {"-", "+"}
        t2 == IF signed THEN Tail(t1) ELSE t1
        n == ScanDigits(t2, 0)
    IN  IF signed /\ Head(t1) = "-" THEN 0 - n ELSE n

\* mutant: the character after the prefix is not tested
GetRtspServerPort_NoDigitTest(config) ==
    IF Take(config, 5) # PortColon /\ Take(config, 5) # PortEq THEN -1
    ELSE IF Len(config) = 5 THEN -1
    ELSE LET port == Atoi(SubSeq(config, 6, Len(config)))
         IN  IF port < 0 \/ port > 65535 THEN -1 ELSE port

\* get_rtsp_server_port
GetRtspServerPort(config) ==
    IF Take(config, 5) # PortColon /\ Take(config, 5) # PortEq THEN -1
    ELSE IF Len(config) = 5 THEN -1
    ELSE LET port == Atoi(SubSeq(config, 6, Len(config)))
         IN  IF port < 0 \/ port > 65535 \/ ~IsDigit(config[6])
             THEN -1 ELSE port

\* create_video_rxtx_h264_std and the constructor of h264_rtp_video_rxtx
CreateVideoRxtxH264Std ==
    /\ rxtx = "none"
    /\ IF Len(opts) = 0
       THEN rxtx' = "created" /\ rtsp_port' = 0
       ELSE IF opts = OptHelp
       THEN rxtx' = "refused" /\ UNCHANGED rtsp_port
       ELSE IF GetRtspServerPort(opts) = -1
       THEN rxtx' = "refused" /\ UNCHANGED rtsp_port
       ELSE rxtx' = "created" /\ rtsp_port' = GetRtspServerPort(opts)
    /\ UNCHANGED <<opts, m_rtsp_server, tx_send_std, video_codec, starts, sent,
                   avType, fSDPLines, sdp_ret, Vdestination, Adestination,
                   sender_msgs>>
    /\ UNCHANGED displayVars

\* mutant: the sender function follows the codec of every frame, and the
\* server is started again when the codec changes
SendFrame_FollowsCodec(codec) ==
    /\ rxtx = "created"
    /\ IF codec \in {"H264", "JPEG", "MJPG"}
       THEN /\ tx_send_std' = IF codec = "H264" THEN "tx_send_h264" ELSE "tx_send_jpeg"
            /\ video_codec' = codec
            /\ m_rtsp_server' = TRUE
            /\ starts' = IF m_rtsp_server /\ video_codec = codec THEN starts
                         ELSE starts + 1
            /\ sent' = [codec |-> codec, fn |-> tx_send_std']
       ELSE /\ sent' = NotSent
            /\ UNCHANGED <<tx_send_std, video_codec, m_rtsp_server, starts>>
    /\ UNCHANGED <<opts, rxtx, rtsp_port, avType, fSDPLines, sdp_ret,
                   Vdestination, Adestination, sender_msgs>>
    /\ UNCHANGED displayVars

\* h264_rtp_video_rxtx::send_frame: without a server, a frame of H264,
\* JPEG or MJPG chooses the sender function and starts the server (any
\* other frame is refused); then the frame is sent with tx_send_std
SendFrame(codec) ==
    /\ rxtx = "created"
    /\ IF ~m_rtsp_server
       THEN IF codec \in {"H264", "JPEG", "MJPG"}
            THEN /\ tx_send_std' = IF codec = "H264" THEN "tx_send_h264"
                                   ELSE "tx_send_jpeg"
                 /\ video_codec' = codec
                 /\ m_rtsp_server' = TRUE
                 /\ starts' = starts + 1
                 /\ sent' = [codec |-> codec, fn |-> tx_send_std']
            ELSE /\ sent' = NotSent
                 /\ UNCHANGED <<tx_send_std, video_codec, m_rtsp_server, starts>>
       ELSE /\ sent' = [codec |-> codec, fn |-> tx_send_std]
            /\ UNCHANGED <<tx_send_std, video_codec, m_rtsp_server, starts>>
    /\ UNCHANGED <<opts, rxtx, rtsp_port, avType, fSDPLines, sdp_ret,
                   Vdestination, Adestination, sender_msgs>>
    /\ UNCHANGED displayVars

\* the media sections setSDPLines formats
IpVerListAddr(af) == IF af = "AF_INET" THEN "4 0.0.0.0" ELSE "6 ::"
VideoSection(af) ==
    [media |-> "video", port |-> RtpPort, addr |-> IpVerListAddr(af),
     bitrate |-> 5000, rtcp |-> RtpPort + 1]
AudioSection(af) ==
    [media |-> "audio", port |-> RtpPortAudio, addr |-> IpVerListAddr(af),
     bitrate |-> 384, rtcp |-> RtpPortAudio + 1]

\* mutant: the audio section is appended to the video section
SetSDPLines_Appends(af) ==
    (IF avType \in {"video", "av"} THEN <<VideoSection(af)>> ELSE <<>>)
    \o (IF avType \in {"audio", "av"} THEN <<AudioSection(af)>> ELSE <<>>)

\* setSDPLines: fSDPLines is assigned the video section if avType is
\* video or av, and then assigned the audio section if avType is audio
\* or av
SetSDPLines(af) ==
    LET afterVideo == IF avType \in {"video", "av"} THEN <<VideoSection(af)>>
                      ELSE fSDPLines
    IN  IF avType \in {"audio", "av"} THEN <<AudioSection(af)>> ELSE afterVideo

\* BasicRTSPOnlySubsession::sdpLines: the description is built if there
\* is none, and returned.  The assertion of setSDPLines
\* (rtsp_params.video_codec == H264) ends the program where assertions
\* are compiled in.
SdpLines(af) ==
    /\ rxtx = "created"
    /\ m_rtsp_server
    /\ \/ /\ fSDPLines = SdpNull
          /\ avType \in {"video", "av"}
          /\ video_codec # "H264"
          /\ rxtx' = "aborted"
          /\ UNCHANGED <<fSDPLines, sdp_ret>>
       \/ /\ fSDPLines' = IF fSDPLines = SdpNull THEN SetSDPLines(af) ELSE fSDPLines
          /\ sdp_ret' = fSDPLines'
          /\ UNCHANGED rxtx
    /\ UNCHANGED <<opts, rtsp_port, m_rtsp_server, tx_send_std, video_codec,
                   starts, sent, avType, Vdestination, Adestination,
                   sender_msgs>>
    /\ UNCHANGED displayVars

\* BasicRTSPOnlySubsession::getStreamParameters: the client's address and
\* RTP port are recorded for the media of avType
GetStreamParameters(addr, port) ==
    /\ rxtx = "created"
    /\ m_rtsp_server
    /\ Vdestination' = IF avType \in {"video", "av"}
                       THEN [addr |-> addr, port |-> port] ELSE Vdestination
    /\ Adestination' = IF avType \in {"audio", "av"}
                       THEN [addr |-> addr, port |-> port] ELSE Adestination
    /\ sender_msgs' = <<>>
    /\ UNCHANGED <<opts, rxtx, rtsp_port, m_rtsp_server, tx_send_std,
                   video_codec, starts, sent, avType, fSDPLines, sdp_ret>>
    /\ UNCHANGED displayVars

\* the two messages sent to a sender module
SenderMsgs(path, port, receiver) ==
    <<[path |-> path, type |-> "SENDER_MSG_CHANGE_PORT", val |-> port],
      [path |-> path, type |-> "SENDER_MSG_CHANGE_RECEIVER", val |-> receiver]>>

\* BasicRTSPOnlySubsession::startStream
StartStream ==
    /\ rxtx = "created"
    /\ m_rtsp_server
    /\ sender_msgs' =
          (IF Vdestination # NoDest /\ avType \in {"video", "av"}
           THEN SenderMsgs("sender", Vdestination.port, Vdestination.addr)
           ELSE <<>>)
          \o (IF Adestination # NoDest /\ avType \in {"audio", "av"}
              THEN SenderMsgs("audio.sender", Adestination.port, Adestination.addr)
              ELSE <<>>)
    /\ UNCHANGED <<opts, rxtx, rtsp_port, m_rtsp_server, tx_send_std,
                   video_codec, starts, sent, avType, fSDPLines, sdp_ret,
                   Vdestination, Adestination>>
    /\ UNCHANGED displayVars

\* mutant: deleteStream that sends its messages but keeps the destinations
DeleteStream_KeepsDestination ==
    /\ rxtx = "created"
    /\ m_rtsp_server
    /\ sender_msgs' =
          (IF Vdestination # NoDest /\ avType \in {"video", "av"}
           THEN SenderMsgs("sender", RtpPort, "127.0.0.1") ELSE <<>>)
          \o (IF Adestination # NoDest /\ avType \in {"audio", "av"}
              THEN SenderMsgs("audio.sender", RtpPortAudio, "127.0.0.1") ELSE <<>>)
    /\ UNCHANGED <<opts, rxtx, rtsp_port, m_rtsp_server, tx_send_std,
                   video_codec, starts, sent, avType, fSDPLines, sdp_ret,
                   Vdestination, Adestination>>
    /\ UNCHANGED displayVars

\* BasicRTSPOnlySubsession::deleteStream: a recorded destination is
\* deleted and the sender sent back to 127.0.0.1 and the server's RTP port
DeleteStream ==
    /\ rxtx = "created"
    /\ m_rtsp_server
    /\ sender_msgs' =
          (IF Vdestination # NoDest /\ avType \in {"video", "av"}
           THEN SenderMsgs("sender", RtpPort, "127.0.0.1") ELSE <<>>)
          \o (IF Adestination # NoDest /\ avType \in {"audio", "av"}
              THEN SenderMsgs("audio.sender", RtpPortAudio, "127.0.0.1") ELSE <<>>)
    /\ Vdestination' = IF Vdestination # NoDest /\ avType \in {"video", "av"}
                       THEN NoDest ELSE Vdestination
    /\ Adestination' = IF Adestination # NoDest /\ avType \in {"audio", "av"}
                       THEN NoDest ELSE Adestination
    /\ UNCHANGED <<opts, rxtx, rtsp_port, m_rtsp_server, tx_send_std,
                   video_codec, starts, sent, avType, fSDPLines, sdp_ret>>
    /\ UNCHANGED displayVars

----------------------------------------------------------------------------
Render ==
    \/ SplashReconfigure
    \/ SplashShow
    \/ \E oc \in Outcomes : RenderReconfigure(oc)
    \/ RenderNewFrame
    \/ RenderWindowEvent
    \/ RenderMessage
    \/ RenderKey
    \/ RenderQuit

Next ==
    \/ SplashReconfigure
    \/ SplashShow
    \/ \E oc \in Outcomes : RenderReconfigure(oc)
    \/ RenderNewFrame
    \/ RenderWindowEvent
    \/ \E ev \in WindowEvents : PostWindowEvent(ev)
    \/ \E t \in Threads : GetfCall(t)
    \/ \E t \in Threads : GetfWake(t)
    \/ \E t \in Threads, tm \in PutfTimeouts :
           \E f \in held[t] \cup {NULL} : PutfCall(t, f, tm)
    \/ \E t \in Threads : PutfTimeout(t)
    \/ \E t \in Threads : PutfWake(t)
    \/ \E t \in Threads : PutfPost(t)
    \/ \E t \in Threads, d \in Descs : ReconfigureCall(t, d)
    \/ \E t \in Threads : ReconfigureWake(t)
    \/ \E t \in Threads : SpuriousWakeup(t)

Spec == Init /\ [][Next]_vars

\* The render thread runs whenever it has something to do; a thread that
\* was woken, or that is about to push its event, runs; a timed wait times
\* out.  Nothing obliges a producer to make a call.
ThreadStep(t) == GetfWake(t) \/ PutfWake(t) \/ PutfPost(t) \/ ReconfigureWake(t)
Fairness ==
    /\ WF_vars(Render)
    /\ \A t \in Threads : WF_vars(ThreadStep(t)) /\ WF_vars(PutfTimeout(t))

FairSpec == Spec /\ Fairness

\* Two threads that only reconfigure
InitPair == InitSession /\ NoOptions /\ script = <<"pair">>
NextPair ==
    \/ SplashReconfigure
    \/ SplashShow
    \/ \E oc \in Outcomes : RenderReconfigure(oc)
    \/ \E t \in Threads, d \in Descs : ReconfigureCall(t, d)
    \/ \E t \in Threads : ReconfigureWake(t)
    \/ \E t \in Threads : SpuriousWakeup(t)
SpecPair == InitPair /\ [][NextPair]_vars /\ Fairness

\* The end-to-end scenarios: after a reconfigure call, thread t1 acquires
\* and submits two frames with PUTF_BLOCKING, either one at a time or both
\* acquired before the first is submitted; it makes each call of its
\* script as soon as the previous one returned
ScriptInterleaved == <<"reconf", "getf", "putf_blocking", "getf", "putf_blocking", "end">>
ScriptBatched == <<"reconf", "getf", "getf", "putf_blocking", "putf_blocking", "end">>
InitE2E == InitSession /\ NoOptions /\ script \in {ScriptInterleaved, ScriptBatched}
ScriptedCall ==
    \/ GetfCall("t1")
    \/ \E f \in held["t1"] : PutfCall("t1", f, PUTF_BLOCKING)
    \/ \E d \in Descs : ReconfigureCall("t1", d)
NextE2E ==
    \/ SplashReconfigure
    \/ SplashShow
    \/ \E oc \in Outcomes : RenderReconfigure(oc)
    \/ RenderNewFrame
    \/ RenderWindowEvent
    \/ \E ev \in WindowEvents : PostWindowEvent(ev)
    \/ ScriptedCall
    \/ \E t \in Threads : PutfWake(t)
    \/ \E t \in Threads : PutfPost(t)
    \/ \E t \in Threads : ReconfigureWake(t)
    \/ \E t \in Threads : SpuriousWakeup(t)
SpecE2E == InitE2E /\ [][NextE2E]_vars /\ Fairness /\ WF_vars(ScriptedCall)

\* A producer, and a second thread that shuts the display down
InitShutdown == InitSession /\ NoOptions /\ script = <<"shutdown">>
SpecShutdown == InitShutdown /\ [][Next]_vars /\ Fairness

\* One producer that reconfigures, gets a frame, calls putf twice (of the
\* frame or the null frame, in any mode but PUTF_BLOCKING) and reconfigures
\* again, while keys, control messages, quit requests and window events
\* arrive
ScriptInput == <<"reconf", "getf", "putf", "putf", "reconf", "end">>
InitInput == InitSession /\ NoOptions /\ script = ScriptInput
NextInput ==
    \/ SplashReconfigure
    \/ SplashShow
    \/ \E oc \in Outcomes : RenderReconfigure(oc)
    \/ RenderNewFrame
    \/ RenderWindowEvent
    \/ RenderMessage
    \/ RenderKey
    \/ RenderQuit
    \/ PostWindowEvent("EXPOSED")
    \/ \E text \in InputTexts : PostMessage(text)
    \/ \E keysym \in InputKeys : PostKey(keysym)
    \/ PostQuit
    \/ GetfCall("t1")
    \/ \E tm \in PutfTimeouts \ {PUTF_BLOCKING} :
           \E f \in held["t1"] \cup {NULL} : PutfCall("t1", f, tm)
    \/ \E d \in Descs : ReconfigureCall("t1", d)
    \/ \E t \in Threads : PutfPost(t)
    \/ \E t \in Threads : ReconfigureWake(t)
    \/ \E t \in Threads : SpuriousWakeup(t)
SpecInput == InitInput /\ [][NextInput]_vars

\* One producer thread, all window events and teardown, with the SDL calls
\* and the accesses to the pool recorded
InitTrace == InitSession /\ NoOptions /\ script = <<"traced">>
NextTrace ==
    \/ SplashReconfigure
    \/ SplashShow
    \/ \E oc \in Outcomes : RenderReconfigure(oc)
    \/ RenderNewFrame
    \/ RenderWindowEvent
    \/ \E ev \in WindowEvents \cup {"SIZE_CHANGED"} : PostWindowEvent(ev)
    \/ \E t \in Threads : GetfCall(t)
    \/ \E t \in Threads : GetfWake(t)
    \/ \E t \in Threads, tm \in PutfTimeouts :
           \E f \in held[t] \cup {NULL} : PutfCall(t, f, tm)
    \/ \E t \in Threads : PutfTimeout(t)
    \/ \E t \in Threads : PutfWake(t)
    \/ \E t \in Threads : PutfPost(t)
    \/ \E t \in Threads, d \in Descs : ReconfigureCall(t, d)
    \/ \E t \in Threads : ReconfigureWake(t)
    \/ \E t \in Threads : SpuriousWakeup(t)
    \/ Done
SpecTrace == InitTrace /\ [][NextTrace]_vars

\* One producer thread under any of the options, with progressive and
\* interlaced video; the key d toggles deinterlacing
InitDeint ==
    /\ InitSession
    /\ script = <<"traced">>
    /\ reconfiguration_status = STATUS_PENDING
    /\ ~fixed_size
NextDeint ==
    \/ SplashReconfigure
    \/ SplashShow
    \/ \E oc \in Outcomes : RenderReconfigure(oc)
    \/ RenderNewFrame
    \/ RenderKey
    \/ events = <<>> /\ PostKey(KeySym(KEY_D, {}))
    \/ \E t \in Threads : GetfCall(t)
    \/ \E t \in Threads : GetfWake(t)
    \/ \E t \in Threads, tm \in {PUTF_NONBLOCK, PUTF_BLOCKING} :
           \E f \in held[t] : PutfCall(t, f, tm)
    \/ \E t \in Threads : PutfWake(t)
    \/ \E t \in Threads : PutfPost(t)
    \/ \E t \in Threads, d \in {DescA, DescB, DescC} : ReconfigureCall(t, d)
    \/ \E t \in Threads : ReconfigureWake(t)
SpecDeint == InitDeint /\ [][NextDeint]_vars

\* Two producer threads that reconfigure, acquire, submit with
\* PUTF_BLOCKING and discard
InitWake ==
    /\ InitSession
    /\ NoOptions
    /\ script = <<"both">>
    /\ reconfiguration_status = STATUS_PENDING
    /\ ~fixed_size
NextWake ==
    \/ SplashReconfigure
    \/ SplashShow
    \/ \E oc \in Outcomes : RenderReconfigure(oc)
    \/ RenderNewFrame
    \/ \E t \in Threads : GetfCall(t)
    \/ \E t \in Threads : GetfWake(t)
    \/ \E t \in Threads, tm \in {PUTF_DISCARD, PUTF_BLOCKING} :
           \E f \in held[t] : PutfCall(t, f, tm)
    \/ \E t \in Threads : PutfWake(t)
    \/ \E t \in Threads : PutfPost(t)
    \/ \E t \in Threads : ReconfigureCall(t, DescA)
    \/ \E t \in Threads : ReconfigureWake(t)
SpecWake == InitWake /\ [][NextWake]_vars /\ Fairness

\* The RTSP sender alone: the object is asked for with one of the option
\* strings, frames of any codec are sent, and RTSP clients describe, set
\* up, play and tear down
InitRtsp ==
    /\ InitDisplay
    /\ NoOptions
    /\ script = <<"end">>
    /\ reconfiguration_status = STATUS_PENDING
    /\ ~fixed_size
    /\ InitRtspVars
    /\ opts \in OptStrings
    /\ avType \in AvTypes
NextRtsp ==
    \/ CreateVideoRxtxH264Std
    \/ \E codec \in Codecs : SendFrame(codec)
    \/ \E af \in AddressFamilies : SdpLines(af)
    \/ \E addr \in ClientAddrs, port \in ClientPorts : GetStreamParameters(addr, port)
    \/ StartStream
    \/ DeleteStream
SpecRtsp == InitRtsp /\ [][NextRtsp]_vars

\* One thread that reconfigures and asks for the pitch of the buffers
NextProperty ==
    \/ SplashReconfigure
    \/ SplashShow
    \/ \E oc \in Outcomes : RenderReconfigure(oc)
    \/ \E t \in Threads, d \in Descs : ReconfigureCall(t, d)
    \/ \E t \in Threads : ReconfigureWake(t)
    \/ \E t \in Threads : SpuriousWakeup(t)
    \/ \E t \in Threads : GetPropertyCall(t)
SpecProperty == Init /\ [][NextProperty]_vars

\* The keyboard alone: no producer calls the display; a key is pressed
\* when the one before it has been handled
InitKeys ==
    /\ InitSession
    /\ NoOptions
    /\ script = <<"end">>
    /\ reconfiguration_status = STATUS_PENDING
    /\ ~fixed_size
PressKey(keysym) == events = <<>> /\ PostKey(keysym)
NextKeys ==
    \/ SplashReconfigure
    \/ SplashShow
    \/ \E keysym \in RawKeys : PressKey(keysym)
    \/ RenderKey
SpecKeys == InitKeys /\ [][NextKeys]_vars

\* The control channel alone: no producer calls the display; control
\* messages arrive; deinterlacing is on or off by the options
InitControl ==
    /\ InitSession
    /\ script = <<"end">>
    /\ reconfiguration_status = STATUS_PENDING
    /\ ~fixed_size
    /\ fmt \in {<<>>, <<"d">>}
NextControl ==
    \/ SplashReconfigure
    \/ SplashShow
    \/ \E text \in MsgTexts : PostMessage(text)
    \/ RenderMessage
SpecControl == InitControl /\ [][NextControl]_vars

----------------------------------------------------------------------------
(* Properties *)

OkRet(op) == [op |-> op, val |-> 0]

\* the frames display_frame unlocks, presents and re-locks while the
\* render thread handles event e
Presented(e) ==
    IF e.type = "frame" THEN {e.data} \ {NULL}
    ELSE IF e.type = "window" /\ Redraws(e.ev) THEN {last_frame} \ {NULL}
    ELSE {}

\* frames a producer got from getf and has not passed to putf yet
HeldOutsidePutf == UNION {held[t] : t \in {u \in Threads : pc[u] \in {"idle", "getf"}}}

\* the pool is configured and nobody is inside a call
Quiescent == display_ok /\ \A t \in Threads : pc[t] = "idle"

\* C1: at every quiescent point after a successful reconfiguration, the
\* frames in the free queue plus the frames in flight (held by a producer
\* or pending as a new-frame event) number BUFFER_COUNT.
C1_PoolInvariant ==
    Quiescent =>
        Len(free_frame_queue) + Cardinality(HeldAll \cup PendingFrames) = BUFFER_COUNT

\* C3: a frame a producer holds is not in the free queue, and no frame is
\* in the free queue twice.
C3_NoDoubleOwnership ==
    /\ HeldAll \cap SeqToSet(free_frame_queue) = {}
    /\ \A i, j \in 1..Len(free_frame_queue) :
           free_frame_queue[i] = free_frame_queue[j] => i = j

C3_Witness ==
    /\ \E t \in Threads : held[t] # {} /\ pc[t] = "idle"
    /\ Len(free_frame_queue) > 0
    /\ last_frame # NULL

\* C4: the render thread never presents (unlocks, copies, re-locks) a
\* frame while a producer holds it, redraws of last_frame included.
C4_ExclusiveOwnership ==
    [][(RenderNewFrame \/ RenderWindowEvent)
          => Presented(Head(events)) \cap HeldOutsidePutf = {}]_vars

\* C5: a reconfiguration that returns success leaves exactly BUFFER_COUNT
\* distinct frames in the free queue, all of the requested descriptor, and
\* last_frame null.
C5_ReconfigureSuccess ==
    [][\A oc \in Outcomes :
          (RenderReconfigure(oc) /\ reconfiguration_status' = C_TRUE)
              => /\ Len(free_frame_queue') = BUFFER_COUNT
                 /\ Cardinality(SeqToSet(free_frame_queue')) = BUFFER_COUNT
                 /\ \E d \in DescRead(Head(events)) :
                        \A i \in 1..Len(free_frame_queue') :
                            free_frame_queue'[i].desc = d
                 /\ last_frame' = NULL]_vars

C5_Witness ==
    /\ reconfiguration_status = C_TRUE
    /\ \E t \in Threads :
           /\ pc[t] = "reconf"
           /\ Len(free_frame_queue) = BUFFER_COUNT
           /\ \A i \in 1..Len(free_frame_queue) :
                  free_frame_queue[i].desc = arg[t].desc
    /\ last_frame = NULL
    /\ current_display_desc # SplashDesc

\* C6: a reconfiguration that returns failure leaves the free queue as it
\* was or empty, never partly filled.
C6_ReconfigureFailure ==
    [][\A oc \in Outcomes :
          (RenderReconfigure(oc) /\ reconfiguration_status' = C_FALSE)
              => \/ free_frame_queue' = free_frame_queue
                 \/ free_frame_queue' = <<>>]_vars

\* C9 as stated: the render thread writes 0 when the reconfiguration
\* succeeds and a negative status when it fails.
C9_StatusZeroNegative ==
    [][\A oc \in Outcomes :
          RenderReconfigure(oc)
              => /\ oc.step = "ok" => reconfiguration_status' = 0
                 /\ oc.step = "texture" => reconfiguration_status' < 0]_vars

\* C9, amended: the render thread writes 1 (TRUE) when the reconfiguration
\* succeeds and 0 (FALSE) when it fails, and the requester returns the
\* value it finds in the slot, which is 0 or 1.
C9_StatusTrueFalse ==
    [][/\ \A oc \in Outcomes :
            RenderReconfigure(oc)
               => /\ oc.step = "ok" => reconfiguration_status' = C_TRUE
                  /\ oc.step = "texture" => reconfiguration_status' = C_FALSE
                  /\ (oc.step \in {"window", "renderer"} /\ ~(fixed_size /\ window))
                        => reconfiguration_status' = C_FALSE
       /\ \A t \in Threads :
            (ReconfigureWake(t) /\ pc'[t] = "idle")
               => /\ ret'[t] = [op |-> "reconf", val |-> reconfiguration_status]
                  /\ reconfiguration_status \in {C_FALSE, C_TRUE}]_vars

C9_Witness ==
    \E t \in Threads :
        /\ pc[t] = "idle"
        /\ ret[t] = [op |-> "reconf", val |-> C_FALSE]
        /\ reconfiguration_status = C_FALSE
        /\ rpc = "loop"

\* C10: the null frame stops the loop without drawing; once stopped the
\* render thread takes no event, displays nothing and releases nothing;
\* putf of the null frame (not PUTF_DISCARD) neither waits nor drops and
\* posts the event.
C10_Sentinel ==
    [][/\ (RenderNewFrame /\ Head(events).data = NULL)
            => rpc' = "stopped" /\ UNCHANGED poolVars
       /\ rpc = "stopped"
            => /\ rpc' = "stopped"
               /\ last_frame' = last_frame
               /\ Len(events') >= Len(events)
               /\ SubSeq(events', 1, Len(events)) = events
               /\ Len(free_frame_queue') > Len(free_frame_queue)
                     => \E t \in Threads : held'[t] # held[t]
       /\ \A t \in Threads, tm \in PutfTimeouts \ {PUTF_DISCARD} :
            PutfCall(t, NULL, tm)
               => pc'[t] = "putf_post" /\ arg'[t].frame = NULL /\ UNCHANGED poolVars
       /\ \A t \in Threads :
            (PutfPost(t) /\ arg[t].frame = NULL)
               => /\ events' = Append(events, [type |-> "frame", data |-> NULL])
                  /\ ret'[t] = OkRet("putf")]_vars

C10_Witness ==
    /\ rpc = "stopped"
    /\ \E i \in 1..Len(events) : events[i].type = "frame" /\ events[i].data # NULL
    /\ Len(free_frame_queue) = 0


\* the render thread is past its event loop, or stuck before it
LoopNotRunning ==
    \/ rpc = "stopped"
    \/ rpc = "splash_getf" /\ free_frame_queue = <<>>

\* C7: whatever the outcome of the reconfiguration, the status the render
\* thread writes satisfies the requester's predicate (status >= 0), and a
\* single requester inside reconfigure eventually returns, as long as the
\* render loop runs.
C7_HandshakeCompletes ==
    /\ [][\A oc \in Outcomes : RenderReconfigure(oc) => reconfiguration_status' >= 0]_vars
    /\ \A t \in Threads :
           (pc[t] = "reconf") ~> (pc[t] # "reconf" \/ LoopNotRunning)

C7_Witness ==
    \E t \in Threads :
        /\ pc[t] = "idle"
        /\ ret[t] = [op |-> "reconf", val |-> C_FALSE]
        /\ ~LoopNotRunning
        /\ free_frame_queue = <<>>

\* C8: with two threads calling reconfigure, a requester returns the
\* status the render thread produced for its own request.
C8_OwnStatus ==
    [][\A t \in Threads :
          (ReconfigureWake(t) /\ pc'[t] = "idle") => ret'[t].val = resolved[t]]_vars

\* the scenario has started: the reconfigure call returned success
Started(sc) == script = Tail(sc) /\ pc["t1"] = "idle" /\ display_ok
\* the first submit returned ok, n calls of the script being left
FirstOk(n) == Len(script) = n /\ pc["t1"] = "idle" /\ ret["t1"] = OkRet("putf")
\* the second submit returned ok and both frames are back in the pool
Finished ==
    /\ script = <<"end">>
    /\ pc["t1"] = "idle"
    /\ ret["t1"] = OkRet("putf")
    /\ Len(free_frame_queue) = BUFFER_COUNT

\* C2 as stated: acquire twice, then submit both with blockingWait: both
\* submits eventually return ok and the free queue holds 2 frames again.
C2_BatchedCompletes ==
    /\ Started(ScriptBatched) ~> FirstOk(2)
    /\ Started(ScriptBatched) ~> Finished

\* C2, amended: acquire, submit with blockingWait, acquire, submit with
\* blockingWait: both submits eventually return ok and the free queue
\* holds 2 frames again.
C2_InterleavedCompletes ==
    /\ Started(ScriptInterleaved) ~> FirstOk(3)
    /\ Started(ScriptInterleaved) ~> Finished

C2_Witness ==
    /\ Finished
    /\ last_frame # NULL
    /\ last_frame = free_frame_queue[BUFFER_COUNT]

----------------------------------------------------------------------------
(* The submit modes and acquire *)

\* a thread's putf has returned val, having been called with timeout tm
PutfReturned(t, tm, val) ==
    /\ pc[t] = "idle"
    /\ ret[t] = [op |-> "putf", val |-> val]
    /\ arg[t].timeout = tm

\* C11: a frame posted as a new-frame event and not yet handled is not in
\* the free queue and is not held by a producer (getf has not returned it).
C11_Backpressure ==
    /\ PendingFrames \cap SeqToSet(free_frame_queue) = {}
    /\ PendingFrames \cap HeldAll = {}

C11_Witness ==
    /\ PendingFrames # {}
    /\ \E t \in Threads :
           /\ pc[t] = "putf"
           /\ arg[t].timeout = PUTF_TIMED
           /\ held[t] # {}

\* C12: putf of a frame with a timeout posts the frame and returns 0 if
\* the free queue is non-empty at the call or when the wait ends; if the
\* wait times out with the queue empty it posts nothing, pushes the frame
\* to the free queue and returns 1.
C12_TimedWait ==
    [][\A t \in Threads :
          /\ \A f \in held[t] :
                PutfCall(t, f, PUTF_TIMED)
                   => IF Len(free_frame_queue) > 0
                      THEN /\ pc'[t] = "putf_post" /\ arg'[t].frame = f
                           /\ free_frame_queue' = free_frame_queue
                      ELSE pc'[t] = "putf" /\ events' = events
          /\ (PutfWake(t) /\ arg[t].timeout = PUTF_TIMED)
                => IF Len(free_frame_queue) > 0
                   THEN /\ pc'[t] = "putf_post" /\ arg'[t].frame = arg[t].frame
                        /\ free_frame_queue' = free_frame_queue
                   ELSE IF woken[t] = "timeout"
                   THEN /\ events' = events
                        /\ free_frame_queue' = <<arg[t].frame>>
                        /\ arg[t].frame \notin held'[t]
                        /\ PutfReturned(t, PUTF_TIMED, 1)'
                   ELSE pc'[t] = "putf" /\ events' = events
          /\ (PutfPost(t) /\ arg[t].timeout = PUTF_TIMED)
                => /\ events' = Append(events, [type |-> "frame", data |-> arg[t].frame])
                   /\ PutfReturned(t, PUTF_TIMED, 0)']_vars

C12_Witness ==
    /\ PutfReturned("t1", PUTF_TIMED, 1)
    /\ Len(free_frame_queue) = 1
    /\ PendingFrames # {}

\* C13 as stated: putf of a frame with PUTF_NONBLOCK never waits and
\* always posts the frame, also when the free queue is empty.
C13_ImmediateAlwaysPosts ==
    [][\A t \in Threads : \A f \in held[t] :
          PutfCall(t, f, PUTF_NONBLOCK)
             => pc'[t] = "putf_post" /\ arg'[t].frame = f]_vars

\* C13, amended: putf of a frame with PUTF_NONBLOCK never waits; it posts
\* the frame if the free queue is non-empty at the call, and otherwise
\* drops it: no event, the frame pushed to the free queue, 1 returned.
C13_ImmediatePostsOrDrops ==
    [][\A t \in Threads :
          /\ \A f \in held[t] :
                PutfCall(t, f, PUTF_NONBLOCK)
                   => IF Len(free_frame_queue) > 0
                      THEN /\ pc'[t] = "putf_post" /\ arg'[t].frame = f
                           /\ free_frame_queue' = free_frame_queue
                      ELSE /\ events' = events
                           /\ free_frame_queue' = <<f>>
                           /\ f \notin held'[t]
                           /\ PutfReturned(t, PUTF_NONBLOCK, 1)'
          /\ (PutfPost(t) /\ arg[t].timeout = PUTF_NONBLOCK /\ arg[t].frame # NULL)
                => /\ events' = Append(events, [type |-> "frame", data |-> arg[t].frame])
                   /\ PutfReturned(t, PUTF_NONBLOCK, 0)']_vars

C13_Witness ==
    /\ PutfReturned("t1", PUTF_NONBLOCK, 1)
    /\ Len(free_frame_queue) = 1
    /\ events = <<>>

C15_AcquireFront ==
    [][/\ \A t \in Threads :
            (GetfCall(t) \/ GetfWake(t))
               => IF Len(free_frame_queue) = 0
                  THEN /\ pc'[t] = "getf"
                       /\ held' = held
                       /\ free_frame_queue' = free_frame_queue
                  ELSE /\ pc'[t] = "idle"
                       /\ held'[t] = held[t] \cup {Head(free_frame_queue)}
                       /\ free_frame_queue' = Tail(free_frame_queue)
       /\ \A t \in Threads :
            held'[t] \ held[t] # {} => GetfCall(t) \/ GetfWake(t)]_vars

C15_Witness ==
    /\ pc["t1"] = "idle"
    /\ Cardinality(held["t1"]) = 1
    /\ Len(free_frame_queue) = 1
    /\ last_frame \notin held["t1"] \cup {NULL}
    /\ free_frame_queue[1] = last_frame

----------------------------------------------------------------------------
(* The event loop *)

\* the null new-frame event
Sentinel == [type |-> "frame", data |-> NULL]

\* the render thread handles the event at the front of the queue
RenderHandles ==
    \/ \E oc \in Outcomes : RenderReconfigure(oc)
    \/ RenderNewFrame
    \/ RenderWindowEvent
    \/ RenderMessage
    \/ RenderKey
    \/ RenderQuit

C17_QuitStops ==
    [][RenderQuit => rpc' = "stopped"]_vars

\* C17, amended: handling SDL_QUIT calls exit_uv(0) and leaves the loop
\* running, with the pool and the session as they were.
C17_QuitRequestsExit ==
    [][RenderQuit
          => /\ rpc = "loop" /\ rpc' = "loop"
             /\ exit_requested' = "quit"
             /\ UNCHANGED <<poolVars, sessionVars, reconfiguration_status>>]_vars

C17_Witness ==
    /\ exit_requested = "quit"
    /\ rpc = "loop"
    /\ events # <<>>
    /\ Head(events).type = "frame" /\ Head(events).data # NULL

\* C18: the render thread enters its loop after the splash screen and
\* leaves it only by taking the null new-frame event or SDL_QUIT from the
\* queue; reconfigurations (failed ones too), control messages, keys and
\* window events leave it running.
C18_StopOnlyOnSentinel ==
    [][/\ rpc # "loop" /\ rpc' = "loop" => rpc = "splash_getf"
       /\ (rpc # "stopped" /\ rpc' = "stopped")
            => /\ rpc = "loop"
               /\ events # <<>>
               /\ Head(events) \in {Sentinel, [type |-> "quit"]}
       /\ ((\E oc \in Outcomes : RenderReconfigure(oc))
              \/ RenderMessage \/ RenderKey \/ RenderWindowEvent)
            => rpc' = "loop"]_vars

C18_Witness ==
    /\ rpc = "stopped"
    /\ exit_requested = "key"
    /\ forwarded = <<KEY_X>>
    /\ responses # <<>>
    /\ held["t1"] # {}

----------------------------------------------------------------------------
(* Shutdown and release *)

\* t is inside getf or reconfigure
Waits(t) == pc[t] \in {"getf", "reconf"}

\* the render thread has reached its event loop
LoopReached == rpc \in {"loop", "stopped"}

\* C19: once the null frame has been posted (the render thread having
\* reached its event loop), every getf call and every reconfigure call
\* under way at that time eventually returns.
C19_ShutdownLiveness ==
    \A t \in Threads : (SentinelPosted /\ LoopReached /\ Waits(t)) ~> ~Waits(t)

\* the part of C19 that is about reconfigure
C19_ReconfigureReturns ==
    \A t \in Threads :
        (SentinelPosted /\ LoopReached /\ pc[t] = "reconf") ~> (pc[t] # "reconf")

\* C20: when the render thread has handled the new-frame event of a
\* frame, the frame is in the free queue.
C20_ReleaseFollowsDisplay ==
    [][(RenderNewFrame /\ Head(events).data # NULL)
          => Head(events).data \in SeqToSet(free_frame_queue')]_vars

----------------------------------------------------------------------------
(* The keyboard *)

\* the keys display_sdl2_process_key handles
LocalKeys == {KEY_D, KEY_F, KEY_Q}

\* the codes of the arrows and of page up / down
NavCode(sym) ==
    CASE sym = SDLK_RIGHT -> K_RIGHT
      [] sym = SDLK_LEFT -> K_LEFT
      [] sym = SDLK_DOWN -> K_DOWN
      [] sym = SDLK_UP -> K_UP
      [] sym = SDLK_PAGEDOWN -> K_PGDOWN
      [] sym = SDLK_PAGEUP -> K_PGUP
      [] OTHER -> -1

C24_KeyDispatch ==
    [][RenderKey =>
         LET key == TranslateSdlKeyToUg(Head(events).keysym)
         IN  /\ translated'.key = key
             /\ UNCHANGED <<poolVars, sessionVars, reconfiguration_status, rpc,
                            msgs, responses>>
             /\ (key > 0 /\ key \in LocalKeys)
                   => /\ forwarded' = <<>>
                      /\ deinterlace' # deinterlace <=> key = KEY_D
                      /\ fs' # fs <=> key = KEY_F
                      /\ key = KEY_Q => exit_requested' = "key"
                      /\ key # KEY_Q => exit_requested' = exit_requested
             /\ (key > 0 /\ key \notin LocalKeys)
                   => /\ forwarded' = <<key>>
                      /\ UNCHANGED <<deinterlace, fs, exit_requested>>
             /\ key <= 0
                   => /\ key \in {0, -1}
                      /\ forwarded' = <<>>
                      /\ UNCHANGED <<deinterlace, fs, exit_requested>>]_vars

C24_Witness ==
    /\ forwarded = <<K_CTRL(KEY_X)>>
    /\ deinterlace = "on"
    /\ fs
    /\ exit_requested = "key"
    /\ events # <<>>
    /\ Head(events).keysym = KeySym(SDLK_F1, {})

----------------------------------------------------------------------------
(* The control channel *)

\* the texts of the queued control messages
QueuedTexts == [i \in 1..Len(msgs) |-> msgs[i].text]

\* C21: on a message event every queued message is taken and answered
\* once: OK for a text beginning with "win-title ", OK for an integer that
\* is a key handled here ('d', 'f', 'q'), BAD_REQUEST for any other integer
\* and for any other text; the loop goes on running.  (A text is an
\* integer if it is digits, after a sign or not.)
C21_Responses ==
    [][RenderMessage =>
         LET Digits(text) ==
                 IF text # <<>> /\ Head(text) \in {"-", "+"} THEN Tail(text) ELSE text
             IsInteger(text) ==
                 /\ Digits(text) # <<>>
                 /\ \A i \in 1..Len(Digits(text)) : IsDigit(Digits(text)[i])
             IntegerOf(text) ==
                 IF Head(text) = "-" THEN 0 - ScanDigits(Digits(text), 0)
                 ELSE ScanDigits(Digits(text), 0)
             Answer(text) ==
                 IF IsWinTitle(text) THEN "OK"
                 ELSE IF IsInteger(text) /\ IntegerOf(text) \in LocalKeys THEN "OK"
                 ELSE "BAD_REQUEST"
         IN  /\ msgs' = <<>>
             /\ rpc' = "loop"
             /\ Len(responses') = Len(msgs)
             /\ \A i \in 1..Len(msgs) :
                    responses'[i] = Response(msgs[i], Answer(msgs[i].text))]_vars

----------------------------------------------------------------------------
(* Reconfiguration and the session *)

\* C25: after a reconfiguration that returns success, the current output
\* descriptor is the requested one (the one the pool was built for), in
\* the fixed-size path and in the path that creates the window.
C25_DescriptorStored ==
    [][\A oc \in Outcomes :
          (RenderReconfigure(oc) /\ reconfiguration_status' = C_TRUE)
              => /\ current_display_desc' \in DescRead(Head(events))
                 /\ \A i \in 1..Len(free_frame_queue') :
                        current_display_desc' = free_frame_queue'[i].desc]_vars

\* C26: after a reconfigure call returned success, the pitch get_property
\* reports is PITCH_DEFAULT if the pixel format of the frames in the free
\* queue is planar, and otherwise the pitch their textures were locked
\* with.
C26_PitchConsistent ==
    \A t \in Threads :
        (pc[t] = "idle" /\ display_ok /\ ret[t].op = "get_property")
            => \A i \in 1..Len(free_frame_queue) :
                   ret[t].val =
                       IF CodecIsPlanar(free_frame_queue[i].desc.color_spec)
                       THEN PITCH_DEFAULT
                       ELSE TexturePitch(free_frame_queue[i].desc)

\* C27: a reconfiguration that returns failure leaves the current output
\* descriptor as it was, and the window, the renderer and the free queue
\* that were there before the request are still there.
C27_FailureKeepsSession ==
    [][\A oc \in Outcomes :
          (RenderReconfigure(oc) /\ reconfiguration_status' = C_FALSE)
              => /\ current_display_desc' = current_display_desc
                 /\ window => window'
                 /\ renderer => renderer'
                 /\ free_frame_queue' = free_frame_queue
                 /\ last_frame' = last_frame]_vars

----------------------------------------------------------------------------
(* SDL calls and accesses to the pool *)

\* C28: with fixed_size set and a window there, a reconfiguration neither
\* destroys nor creates a window or a renderer: it sets the logical size
\* and rebuilds the frames (BUFFER_COUNT new ones if it succeeds), and
\* the window and the renderer are the ones there were.
C28_FixedWindowKept ==
    [][\A oc \in Outcomes :
          (RenderReconfigure(oc) /\ fixed_size /\ window)
              => /\ sdl_calls' = <<"SDL_RenderSetLogicalSize", "recreate_textures">>
                 /\ \A i \in 1..Len(sdl_calls') :
                        sdl_calls'[i] \notin {"SDL_DestroyWindow", "SDL_CreateWindow",
                                              "SDL_DestroyRenderer", "SDL_CreateRenderer"}
                 /\ window' = window /\ renderer' = renderer
                 /\ last_frame' = NULL
                 /\ reconfiguration_status' = C_TRUE
                       => /\ Len(free_frame_queue') = BUFFER_COUNT
                          /\ \A i \in 1..BUFFER_COUNT :
                                 free_frame_queue'[i].desc \in DescRead(Head(events))]_vars

C28_Witness ==
    /\ fixed_size
    /\ sdl_calls = <<"SDL_RenderSetLogicalSize", "recreate_textures">>
    /\ reconfiguration_status = C_TRUE
    /\ pc["t1"] = "reconf"
    /\ window /\ renderer
    /\ Len(free_frame_queue) = BUFFER_COUNT
    /\ free_frame_queue[1].desc = arg["t1"].desc

\* C29: handling an exposed or size-changed window event presents
\* last_frame twice and leaves the free queue, last_frame and the frames
\* in flight (held by a producer or posted) as they were; with last_frame
\* null nothing is presented.
C29_RedrawEffect ==
    [][(RenderWindowEvent /\ Head(events).ev \in {"EXPOSED", "SIZE_CHANGED"})
          => /\ sdl_calls' = IF last_frame = NULL THEN <<>>
                             ELSE <<"SDL_RenderPresent", "SDL_RenderPresent">>
             /\ free_frame_queue' = free_frame_queue
             /\ last_frame' = last_frame
             /\ held' = held
             /\ PendingFrames' = PendingFrames
             /\ woken' = woken]_vars

C29_Witness ==
    /\ sdl_calls = <<"SDL_RenderPresent", "SDL_RenderPresent">>
    /\ last_frame # NULL
    /\ last_frame \in held["t1"]
    /\ PendingFrames # {}

\* C30: every read and write of the free queue and of last_frame, by the
\* producers (getf, putf), by the render thread (display_frame, the
\* reconfiguration, the splash screen) and by teardown, is made with
\* s->lock held.
C30_PoolUnderLock ==
    \A a \in pool_access : a.locked

\* C31: while the render thread handles a reconfigure event, s->lock is
\* not held during the calls that destroy and create the window, the
\* renderer and the textures; it is held only for the write of
\* reconfiguration_status.
C31_NoLockAcrossGraphics ==
    [][\A oc \in Outcomes :
          (RenderReconfigure(oc) /\ sdl_calls' # <<>>) => ~calls_locked']_vars

----------------------------------------------------------------------------
(* Deinterlacing *)

\* C32: when a non-null frame is displayed, vc_deinterlace_ex is called
\* iff the policy is force, or it is on and the frame is
\* INTERLACED_MERGED; whether or not deinterlacing fails, the frame is
\* presented and, not being a redraw of last_frame, pushed to the free
\* queue and made last_frame.
C32_DeinterlacePolicy ==
    [][(RenderNewFrame /\ Head(events).data # NULL)
          => LET frame == Head(events).data
                 called == \E i \in 1..Len(sdl_calls') :
                              sdl_calls'[i] = "vc_deinterlace_ex"
             IN  /\ called <=>
                       \/ deinterlace = "force"
                       \/ /\ deinterlace = "on"
                          /\ frame.desc.interlacing = "INTERLACED_MERGED"
                 /\ sdl_calls'[Len(sdl_calls')] = "SDL_RenderPresent"
                 /\ frame # last_frame
                       => /\ last_frame' = frame
                          /\ free_frame_queue' = Append(free_frame_queue, frame)]_vars

\* a frame that could not be deinterlaced has been presented and released
C32_Witness ==
    /\ sdl_calls = <<"vc_deinterlace_ex", "log_msg_once", "SDL_RenderPresent">>
    /\ deinterlace = "on"
    /\ last_frame # NULL
    /\ last_frame.desc = DescB
    /\ last_frame \in SeqToSet(free_frame_queue)

\* C33: the option "d" sets the deinterlace policy to on, the option
\* "dforce" sets it to force, and with neither it is off.
C33_DeinterlaceOptions ==
    rpc = "splash" =>
        /\ fmt = <<>> => deinterlace = "off"
        /\ fmt = <<"d">> => deinterlace = "on"
        /\ fmt = <<"dforce">> => deinterlace = "force"

----------------------------------------------------------------------------
(* Wake-ups *)

\* a thread is inside the wait of getf or of a putf with PUTF_BLOCKING
Blocked(t) ==
    \/ pc[t] = "getf"
    \/ pc[t] = "putf" /\ arg[t].timeout = PUTF_BLOCKING

\* C34: under fair scheduling no thread stays blocked in getf or in a
\* putf with PUTF_BLOCKING while the free queue is non-empty: it leaves
\* its wait, or the queue becomes empty again.
C34_NoLostWakeup ==
    \A t \in Threads :
        (Blocked(t) /\ free_frame_queue # <<>>)
            ~> (~Blocked(t) \/ free_frame_queue = <<>>)

----------------------------------------------------------------------------
(* Frames in flight *)

\* the new-frame events with a frame in the event queue
PendingFrameEvents ==
    {i \in 1..Len(events) : events[i].type = "frame" /\ events[i].data # NULL}

\* C35: putf goes on to post a frame only when its test finds the free
\* queue non-empty, and at most BUFFER_COUNT - 1 new-frame events with a
\* frame are in the event queue at any time.
C35_PendingBound ==
    /\ [][\A t \in Threads :
             (pc[t] # "putf_post" /\ pc'[t] = "putf_post" /\ arg'[t].frame # NULL)
                 => Len(free_frame_queue) > 0]_vars
    /\ [](Cardinality(PendingFrameEvents) <= BUFFER_COUNT - 1)

\* a frame is pending, the producer has the other one and the free queue
\* is empty
C35_Witness ==
    /\ Cardinality(PendingFrameEvents) = BUFFER_COUNT - 1
    /\ free_frame_queue = <<>>
    /\ held["t1"] # {}
    /\ ret["t1"] = [op |-> "putf", val |-> 0]

----------------------------------------------------------------------------
(* Startup *)

\* C36: the render thread always gets through the splash screen
\* (reconfiguration, getf, display_frame) and reaches its event loop,
\* also when the reconfiguration for the splash screen fails.
C36_StartupReachesLoop == <>LoopReached

----------------------------------------------------------------------------
(* The RTSP sender *)

\* C37: send_frame starts the RTSP server at most once; without a server,
\* a frame of H264, JPEG or MJPG starts it, the sender function chosen by
\* that frame's codec, and a frame of any other codec is not sent and
\* starts nothing; with a server, every frame is sent with the sender
\* function already chosen, whatever its codec.
C37_ServerStartedOnce ==
    /\ [](starts <= 1)
    /\ [][\A codec \in Codecs :
             SendFrame(codec) =>
                 IF m_rtsp_server
                 THEN /\ sent' = [codec |-> codec, fn |-> tx_send_std]
                      /\ UNCHANGED <<m_rtsp_server, tx_send_std, starts>>
                 ELSE IF codec \in {"H264", "JPEG", "MJPG"}
                 THEN /\ m_rtsp_server'
                      /\ starts' = starts + 1
                      /\ tx_send_std' = IF codec = "H264" THEN "tx_send_h264"
                                        ELSE "tx_send_jpeg"
                      /\ sent' = [codec |-> codec, fn |-> tx_send_std']
                 ELSE /\ sent' = NotSent
                      /\ UNCHANGED <<m_rtsp_server, tx_send_std, starts>>]_vars

\* a frame of another codec has been sent by the server a JPEG frame
\* started
C37_Witness ==
    /\ starts = 1
    /\ m_rtsp_server
    /\ video_codec = "JPEG"
    /\ sent = [codec |-> "UYVY", fn |-> "tx_send_jpeg"]

\* C38: get_rtsp_server_port returns -1 or a port in 0..65535, and -1
\* whenever the option does not start with "port=" or "port:", has
\* nothing after the prefix, or has no digit right after it;
\* create_video_rxtx_h264_std creates no object when the result is -1 or
\* the option is "help", and uses port 0 for the empty option.
C38_PortOption ==
    LET port == GetRtspServerPort(opts)
        prefixed == Take(opts, 5) = PortEq \/ Take(opts, 5) = PortColon
    IN  /\ port = -1 \/ (0 <= port /\ port <= 65535)
        /\ (~prefixed \/ Len(opts) = 5 \/ ~IsDigit(opts[6])) => port = -1
        /\ rxtx # "none" =>
              /\ opts = <<>> => (rxtx # "refused" /\ rtsp_port = 0)
              /\ opts = OptHelp => rxtx = "refused"
              /\ (opts # <<>> /\ port = -1) => rxtx = "refused"
              /\ (opts # <<>> /\ opts # OptHelp /\ port # -1)
                    => (rxtx # "refused" /\ rtsp_port = port)

C38_Witness ==
    /\ rxtx = "created"
    /\ rtsp_port = 65535
    /\ opts = PortEq \o <<"6", "5", "5", "3", "5">>

\* C39: sdpLines builds the description once and returns the same value
\* on every later call; for avType av the description returned has the
\* video section (video RTP port) and the audio section (audio RTP port).
C39_SdpLinesCached ==
    /\ [][fSDPLines # SdpNull => fSDPLines' = fSDPLines]_vars
    /\ [][\A af \in AddressFamilies :
             (SdpLines(af) /\ rxtx' = "created") => sdp_ret' = fSDPLines']_vars
    /\ []((avType = "av" /\ sdp_ret # SdpNull) =>
             /\ \E i \in 1..Len(sdp_ret) :
                    sdp_ret[i].media = "video" /\ sdp_ret[i].port = RtpPort
             /\ \E i \in 1..Len(sdp_ret) :
                    sdp_ret[i].media = "audio" /\ sdp_ret[i].port = RtpPortAudio)

\* C40: startStream sends the change-port and change-receiver messages of a
\* medium only if a destination is recorded for it, and a destination is
\* recorded only by getStreamParameters and cleared only by deleteStream;
\* deleteStream clears the recorded destinations and sends the sender
\* back to 127.0.0.1 and the server's RTP port; with no destination
\* recorded (a second deleteStream) it sends nothing and changes nothing.
C40_StreamLifecycle ==
    [][/\ StartStream =>
            /\ sender_msgs' =
                  (IF Vdestination # NoDest
                   THEN SenderMsgs("sender", Vdestination.port, Vdestination.addr)
                   ELSE <<>>)
                  \o (IF Adestination # NoDest
                      THEN SenderMsgs("audio.sender", Adestination.port,
                                      Adestination.addr)
                      ELSE <<>>)
            /\ UNCHANGED <<Vdestination, Adestination>>
       /\ DeleteStream =>
            /\ Vdestination' = NoDest
            /\ Adestination' = NoDest
            /\ sender_msgs' =
                  (IF Vdestination # NoDest
                   THEN SenderMsgs("sender", RtpPort, "127.0.0.1") ELSE <<>>)
                  \o (IF Adestination # NoDest
                      THEN SenderMsgs("audio.sender", RtpPortAudio, "127.0.0.1")
                      ELSE <<>>)
       /\ (DeleteStream /\ Vdestination = NoDest /\ Adestination = NoDest) =>
            /\ sender_msgs' = <<>>
            /\ UNCHANGED <<opts, rxtx, rtsp_port, m_rtsp_server, tx_send_std,
                           video_codec, starts, sent, avType, fSDPLines,
                           sdp_ret, Vdestination, Adestination>>
       /\ (Vdestination' # NoDest /\ Vdestination' # Vdestination) =>
            \E addr \in ClientAddrs, port \in ClientPorts :
                GetStreamParameters(addr, port) /\ avType \in {"video", "av"}
       /\ (Adestination' # NoDest /\ Adestination' # Adestination) =>
            \E addr \in ClientAddrs, port \in ClientPorts :
                GetStreamParameters(addr, port) /\ avType \in {"audio", "av"}
       /\ (Vdestination # NoDest /\ Vdestination' = NoDest) => DeleteStream
       /\ (Adestination # NoDest /\ Adestination' = NoDest) => DeleteStream]_vars

\* both destinations of an av subsession have just been deleted
C40_Witness ==
    /\ avType = "av"
    /\ Vdestination = NoDest
    /\ Adestination = NoDest
    /\ sender_msgs = SenderMsgs("sender", RtpPort, "127.0.0.1")
                        \o SenderMsgs("audio.sender", RtpPortAudio, "127.0.0.1")

====
